---- MODULE Spec2Model ----
(***************************************************************************)
(* Subscription parsing and node enrichment pipeline of dingyue_check:     *)
(* the retrying fetch layer (retry_utils.py, parser.py), node decoding     *)
(* (parser.py), geo enrichment and its shared cache (geo_service.py) and   *)
(* the bot's bounded-concurrency batches (bot_async.py).                   *)
(*                                                                         *)
(* The module holds several state machines over disjoint groups of         *)
(* variables; each specification runs one of them and keeps the others     *)
(* at rest:                                                                *)
(*   SpecRetry  - one call of a retry_on_failure wrapper                   *)
(*   SpecParse  - SubscriptionParser._parse_nodes on a payload             *)
(*   SpecGeo    - _analyze_nodes / GeoLocationService, one parse at a time *)
(*   SpecGeoMT  - get_location run by concurrent executor threads          *)
(*   SpecBot    - a URL batch of check_command / handle_subscription /     *)
(*                handle_document behind asyncio.Semaphore(3)              *)
(***************************************************************************)
EXTENDS Integers, Sequences, FiniteSets, TLC

VARIABLES
    \* ---- retry_on_failure.wrapper (retry_utils.py) ----
    rt_pc,            \* "idle" | "loop" | "sleep" | "returned" | "raised"
    wrapped,          \* which function is wrapped: "_fetch" (parser.py) or "_request"
    max_retries,      \* decorator argument
    initial_delay,    \* decorator argument, in DelayUnit
    backoff_factor,   \* decorator argument
    attempt,          \* loop variable of `for attempt in range(max_retries)`
    delay,            \* local `delay`
    last_exception,   \* local `last_exception` ("None" when unset)
    raised,           \* exception that left the wrapper ("None" when none)
    call_trace,       \* each invocation of the wrapped function, in order:
                      \* [event: what the network did, outcome: "ok" or the exception]
    sleeps,           \* argument of each time.sleep call, in order
    \* ---- SubscriptionParser._parse_nodes (parser.py) ----
    pn_pc,            \* "idle" | "call" | "proxies" | "lines" | "done"
    content,          \* the payload handed to _parse_nodes
    nodes,            \* local `nodes`; the list returned once pn_pc = "done"
    pn_i,             \* position of the running loop in the proxies or the lines
    \* ---- GeoLocationService (geo_service.py), shared by all parses ----
    cache,            \* self.cache: endpoint -> location
    cache_dirty,      \* self._cache_dirty
    cache_new_entries,\* self._cache_new_entries
    last_cache_save,  \* self._last_cache_save
    cache_file,       \* data/geo_cache.json: [state: "ok" | "partial", data]
    clock,            \* time.monotonic(), in seconds
    ticks_left,       \* environment: number of clock advances still to come
    api_mode,         \* environment: ip-api.com is "up" | "down" | "fail" | "flaky"
    disk,             \* environment: opening the cache file is "ok" | "flaky"
    inserted_at,      \* history: the clock at which each cache entry was inserted
    lookup_log,       \* history: the external requests, [ip, at, thread], in order
    max_hit_age,      \* history: greatest age of an entry returned as a cache hit
    \* ---- SubscriptionParser._analyze_nodes, one call per executor thread ----
    th,               \* thread -> locals of _analyze_nodes / get_location
    \* ---- the bot process that owns the GeoLocationService ----
    proc,             \* "running" | "hook" | "hook_dump" | "exited" | "killed"
    \* ---- SubscriptionStorage (storage_enhanced.py) ----
    st_pc,            \* "ready" | "save_open" | "save_dump" | "save_replace" |
                      \* "save_log" (inside _save_data) | "killed" ("idle": no store)
    subscriptions,    \* self.subscriptions: url -> entry
    files,            \* the data file, its temporary file and the export file
    batch,            \* a batch is open (begin_batch called, end_batch not yet)
    batch_writes,     \* history: writes of the data file since begin_batch
    st_clock,         \* datetime.now(), in seconds
    ops_left,         \* calls the run may still make
    faults_left,      \* I/O errors the run may still meet
    last_op,          \* history: the last call, its arguments, the store before it
                      \* and what it returned
    prev_data,        \* history: the data file when the last _save_data began
    save_status,      \* history: "none" | "running" | "saved" | "failed"
    exported,         \* history: the subscriptions the export file was written from
    \* ---- FileHandler and the direct analysis (file_handler.py, bot_async.py) ----
    fh_pc,            \* "call" | "lines" | "proxies" | "parsed" | "rejected" |
                      \* "analyzed" ("idle": nothing was sent)
    fh_file,          \* the document or message: its type and its content
    fh_nodes,         \* local `nodes` of parse_txt_file / parse_yaml_file
    fh_i,             \* position of the loop over the lines or the proxies
    analyzed,         \* length of the list passed to _analyze_nodes, if one was
    \* ---- GeoLocationService.__new__ / __init__ (geo_service.py) ----
    cls_instance,     \* GeoLocationService._instance: Nothing or the object
    objs,             \* the objects allocated by super().__new__(cls)
    ctor,             \* per thread: position inside GeoLocationService(), self
    init_runs,        \* how many times the body of __init__ has started
    hooks,            \* how many atexit hooks are registered
    returned,         \* the objects that constructions have returned
    sg_file,          \* the entries of data/geo_cache.json
    \* ---- url_cache and button_callback (bot_async.py) ----
    url_cache,        \* the OrderedDict, oldest first: <<[key, url, ts], ...>>
    cb_clock,         \* time.time(), in seconds
    cb_ticks,         \* clock steps left
    cb_ops_left,      \* calls left
    last_cb,          \* the last call: what it was given, found and did
    pending_tag_url,  \* context.user_data['pending_tag_url'], if set
    \* ---- check_command and the store (bot_async.py, storage_enhanced.py) ----
    ck_pc,            \* "call" | "gather" | "done" | "empty" ("idle": no /check)
    ck_store,         \* store.subscriptions
    ck_before,        \* store.subscriptions when /check arrived
    ck_tag,           \* context.args[0], if given
    ck_subs,          \* the URLs of the local `subscriptions`
    ck_task,          \* per URL: "wait" | "parsing" | "done"
    ck_sem,           \* value of the semaphore
    ck_results,       \* per URL: res of check_one, with what parse did
    ck_report,        \* the counts of the report, once built
    ck_clock,         \* datetime.now()
    \* ---- /import and uploaded documents (bot_async.py) ----
    user_data,        \* per user: context.user_data
    im_store,         \* get_storage().subscriptions
    im_log,           \* the updates handled so far, with what each one did
    im_left,          \* updates still to come
    im_clock,         \* datetime.now()
    \* ---- safe_request (retry_utils.py) ----
    safe_result,      \* "pending" | "response" | "None" (returned) | "propagated"
    \* ---- SubscriptionParser._parse_traffic_info (parser.py) ----
    ti_pc,            \* "idle" | "call" | "loop" | "done" | "raised"
    userinfo,         \* the subscription-userinfo header, split at ';' (empty: no header)
    ti_i,             \* position of `for part in parts`
    traffic_info,     \* local `traffic_info`; the dict returned once ti_pc = "done"
    ti_raised,        \* exception that left _parse_traffic_info ("None" when none)
    \* ---- SubscriptionParser._extract_airport_name (parser.py) ----
    an_pc,            \* "call" | "names" | "done" ("idle": not called)
    an_headers,       \* the Content-Disposition header of `headers`, if it has one
    an_nodes,         \* the 'name' of each node of `nodes`, in order
    an_url,           \* argument `url`
    an_k,             \* position of `for name in node_names`
    common_patterns,  \* local `common_patterns`
    airport_name,     \* the text returned once an_pc = "done"
    \* ---- a URL batch of the bot (bot_async.py) ----
    handler,          \* "check_command" | "handle_subscription" | "handle_document"
    urls,             \* the batch: `subscriptions`, `urls` or `subscription_urls`
    semaphore,        \* semaphore._value of the batch's asyncio.Semaphore(3)
    task_pc,          \* position of each task of `tasks`:
                      \* "start" | "acquire" | "parsing" | "report" | "done"
    parse_calls,      \* number of get_parser().parse calls made for each URL
    results,          \* 'status' of each task: "pending" | "success" | "failed" | "invalid"
    batch_pc,         \* "idle" | "gather" | "ended"
    max_in_flight     \* history: greatest number of parse calls in flight at once


retryVars == <<rt_pc, wrapped, max_retries, initial_delay, backoff_factor, attempt,
               delay, last_exception, raised, call_trace, sleeps>>

parseVars == <<pn_pc, content, nodes, pn_i>>

geoVars == <<cache, cache_dirty, cache_new_entries, last_cache_save, cache_file, clock,
             ticks_left, api_mode, disk, inserted_at, lookup_log, max_hit_age, th>>

botVars == <<handler, urls, semaphore, task_pc, parse_calls, results, batch_pc,
             max_in_flight>>

trafficVars == <<ti_pc, userinfo, ti_i, traffic_info, ti_raised>>

airportVars == <<an_pc, an_headers, an_nodes, an_url, an_k, common_patterns,
                 airport_name>>

storeVars == <<st_pc, subscriptions, files, batch, batch_writes, st_clock, ops_left,
               faults_left, last_op, prev_data, save_status, exported>>

fileVars == <<fh_pc, fh_file, fh_nodes, fh_i, analyzed>>

singletonVars == <<cls_instance, objs, ctor, init_runs, hooks, returned, sg_file>>

callbackVars == <<url_cache, cb_clock, cb_ticks, cb_ops_left, last_cb, pending_tag_url>>

checkVars == <<ck_pc, ck_store, ck_before, ck_tag, ck_subs, ck_task, ck_sem, ck_results,
               ck_report, ck_clock>>

importVars == <<user_data, im_store, im_log, im_left, im_clock>>

vars == <<retryVars, parseVars, geoVars, botVars, proc, trafficVars, airportVars,
         safe_result, storeVars, fileVars, singletonVars, callbackVars, checkVars, importVars>>

\* what each machine leaves alone
notRetry == <<parseVars, geoVars, botVars, proc, trafficVars, airportVars, safe_result,
    storeVars, fileVars, singletonVars, callbackVars, checkVars, importVars>>
notParse == <<retryVars, geoVars, botVars, proc, trafficVars, airportVars, safe_result,
    storeVars, fileVars, singletonVars, callbackVars, checkVars, importVars>>
notGeo == <<retryVars, parseVars, botVars, proc, trafficVars, airportVars, safe_result,
    storeVars, fileVars, singletonVars, callbackVars, checkVars, importVars>>
notBot == <<retryVars, parseVars, geoVars, proc, trafficVars, airportVars, safe_result,
    storeVars, fileVars, singletonVars, callbackVars, checkVars, importVars>>
\* what the process's exit and death leave alone
notProc == <<retryVars, parseVars, botVars, trafficVars, airportVars, safe_result,
    storeVars, fileVars, singletonVars, callbackVars, checkVars, importVars>>
notTraffic == <<retryVars, parseVars, geoVars, botVars, proc, airportVars, safe_result,
    storeVars, fileVars, singletonVars, callbackVars, checkVars, importVars>>
notAirport == <<retryVars, parseVars, geoVars, botVars, proc, trafficVars, safe_result,
    storeVars, fileVars, singletonVars, callbackVars, checkVars, importVars>>
notStore == <<retryVars, parseVars, geoVars, botVars, proc, trafficVars, airportVars,
             safe_result, fileVars, singletonVars, callbackVars, checkVars, importVars>>
notFile == <<retryVars, parseVars, geoVars, botVars, proc, trafficVars, airportVars,
            safe_result, storeVars, singletonVars, callbackVars, checkVars, importVars>>
notSingleton == <<retryVars, parseVars, geoVars, botVars, proc, trafficVars, airportVars, safe_result, storeVars, fileVars, callbackVars, checkVars, importVars>>
notCallback == <<retryVars, parseVars, geoVars, botVars, proc, trafficVars, airportVars, safe_result, storeVars, fileVars, singletonVars, checkVars, importVars>>
notCheck == <<retryVars, parseVars, geoVars, botVars, proc, trafficVars, airportVars, safe_result, storeVars, fileVars, singletonVars, callbackVars, importVars>>
notImport == <<retryVars, parseVars, geoVars, botVars, proc, trafficVars, airportVars, safe_result, storeVars, fileVars, singletonVars, callbackVars, checkVars>>
notSafe == <<parseVars, geoVars, botVars, proc, trafficVars, airportVars,
    storeVars, fileVars, singletonVars, callbackVars, checkVars, importVars>>

(***************************************************************************)
(* Bounds of the model                                                     *)
(***************************************************************************)
MaxRetriesBound == 4
\* payload sizes (entries or lines) range over 0..SmallSize and over
\* MAX_NODES-2 .. MAX_NODES+MaxExtra
SmallSize == 4
MaxExtra == 2
\* node lists handed to _analyze_nodes have 0..SmallGeo nodes or
\* MAX_GEO_QUERIES-1 .. MAX_GEO_QUERIES+GeoExtra nodes
SmallGeo == 2
GeoExtra == 2
\* the clock advances at most MaxTicks times
MaxTicks == 2

(***************************************************************************)
(* retry_utils.py                                                          *)
(***************************************************************************)

\* Python's None
None == "None"

\* An optional value (a Python value or None) is a sequence of length <= 1.
Nothing == << >>
Some(x) == <<x>>

\* A file is [state: "absent" | "partial" (opened for writing and not yet
\* completely written) | "complete", doc: what has been written]
AbsentFile == [state |-> "absent", doc |-> {}]
TruncatedFile == [state |-> "partial", doc |-> {}]
WrittenFile(doc) == [state |-> "complete", doc |-> doc]

\* Endpoints (the strings NodeIPExtractor.extract_ip returns) are records
\*   [kind: "ipv4" (dotted quad of 1-3 digit numbers) | "host" | "other" |
\*          "empty" (the empty string), octets, name]
Ip(i) == [kind |-> "ipv4", octets |-> <<10, 0, i \div 256, i % 256>>, name |-> ""]
BadOctetIp == [kind |-> "ipv4", octets |-> <<10, 0, 0, 999>>, name |-> ""]
Host(h) == [kind |-> "host", octets |-> << >>, name |-> h]
Ipv6 == [kind |-> "other", octets |-> << >>, name |-> "2001:db8::1"]
EmptyStr == [kind |-> "empty", octets |-> << >>, name |-> ""]
\* a YAML `server:` value that is a number, not a string
IntServer == [kind |-> "int", octets |-> << >>, name |-> ""]

\* the payload of a parser that is not running
EmptyPayload == [clash |-> FALSE, yaml |-> "error", proxies |-> << >>, lines |-> << >>]

\* Delays are counted in tenths of a second: 1.0 s = 10, 0.1 s = 1.
InitialDelays == {1, 10}
BackoffFactors == {1, 2, 3}

\* What one HTTP GET of the origin can end in.
NetEvents == {"200", "404", "503", "refused", "timeout"}

\* Base classes (transitively, the class itself included) of the exceptions
\* that the wrapped functions raise.  requests.exceptions: HTTPError,
\* ConnectionError and Timeout derive from RequestException (an IOError).
ClassBases(exc) ==
    CASE exc = "HTTPError"           -> {"HTTPError", "RequestException", "OSError", "Exception"}
      [] exc = "requests.ConnectionError"
                                     -> {"requests.ConnectionError", "RequestException",
                                         "OSError", "Exception"}
      [] exc = "requests.Timeout"    -> {"requests.Timeout", "RequestException",
                                         "OSError", "Exception"}
      [] exc = "ValueError"          -> {"ValueError", "Exception"}
      [] exc = "RuntimeError"        -> {"RuntimeError", "Exception"}
      [] OTHER                       -> {exc, "Exception"}

\* default of the `exceptions` parameter of retry_on_failure
DefaultExceptions == {"RequestException", "ConnectionError", "TimeoutError"}

\* `except exceptions as e` : isinstance(e, exceptions)
IsInstance(exc, classes) == ClassBases(exc) \cap classes # {}

\* response.raise_for_status(): HTTPError for 4xx and 5xx
RaiseForStatus(status) == IF status \in {"404", "503"} THEN "HTTPError" ELSE None

\* _fetch of _download_subscription: one requests.get, then raise_for_status.
\* The result is "ok" (the response is returned) or the exception raised.
Fetch(ev) ==
    CASE ev = "refused" -> "requests.ConnectionError"
      [] ev = "timeout" -> "requests.Timeout"
      [] OTHER          -> IF RaiseForStatus(ev) = None THEN "ok" ELSE RaiseForStatus(ev)

\* _request of safe_request: requests.get / requests.post (no raise_for_status),
\* ValueError for an unsupported method.
Request(ev) ==
    CASE ev = "refused"    -> "requests.ConnectionError"
      [] ev = "timeout"    -> "requests.Timeout"
      [] ev = "bad_method" -> "ValueError"
      [] OTHER             -> "ok"

WrappedEvents(w) == IF w = "_fetch" THEN NetEvents ELSE NetEvents \cup {"bad_method"}
CallWrapped(w, ev) == IF w = "_fetch" THEN Fetch(ev) ELSE Request(ev)

\* `attempt == max_retries - 1`: the last attempt does not sleep, it re-raises
IsLastAttemptMutant(a, n) == a = n - 2
IsLastAttempt(a, n) == a = n - 1

\* One iteration of `for attempt in range(max_retries)` up to the return, the
\* raise or the time.sleep call: the wrapped function is invoked once.
RetryAttempt ==
    /\ rt_pc = "loop"
    /\ attempt < max_retries
    /\ \E ev \in WrappedEvents(wrapped) :
        LET out == CallWrapped(wrapped, ev) IN
        /\ call_trace' = Append(call_trace, [event |-> ev, outcome |-> out])
        /\ IF out = "ok"
             THEN /\ rt_pc' = "returned"
                  /\ UNCHANGED <<last_exception, raised>>
             ELSE IF ~IsInstance(out, DefaultExceptions)
               THEN \* not caught by `except exceptions`: propagates
                    /\ rt_pc' = "raised"
                    /\ raised' = out
                    /\ UNCHANGED last_exception
               ELSE /\ last_exception' = out
                    /\ IF IsLastAttempt(attempt, max_retries)
                         THEN /\ rt_pc' = "raised"      \* bare `raise`
                              /\ raised' = out
                         ELSE /\ rt_pc' = "sleep"
                              /\ UNCHANGED raised
    /\ UNCHANGED <<wrapped, max_retries, initial_delay, backoff_factor, attempt,
                   delay, sleeps>>
    /\ UNCHANGED notRetry

\* `delay *= backoff_factor`
NextDelayMutant(d, f) == d
NextDelayAdditive(d, f) == d + f
NextDelay(d, f) == d * f

\* time.sleep(delay); delay *= backoff_factor; next iteration
RetrySleep ==
    /\ rt_pc = "sleep"
    /\ sleeps' = Append(sleeps, delay)
    /\ delay' = NextDelay(delay, backoff_factor)
    /\ attempt' = attempt + 1
    /\ rt_pc' = "loop"
    /\ UNCHANGED <<wrapped, max_retries, initial_delay, backoff_factor,
                   last_exception, raised, call_trace>>
    /\ UNCHANGED notRetry

\* The loop ran to its end without returning or raising (range(max_retries)
\* exhausted): `if last_exception: raise last_exception`, else RuntimeError.
RetryFallThrough ==
    /\ rt_pc = "loop"
    /\ attempt >= max_retries
    /\ rt_pc' = "raised"
    /\ raised' = IF last_exception # None THEN last_exception ELSE "RuntimeError"
    /\ UNCHANGED <<wrapped, max_retries, initial_delay, backoff_factor, attempt,
                   delay, last_exception, call_trace, sleeps>>
    /\ UNCHANGED notRetry

RetryNext == RetryAttempt \/ RetrySleep \/ RetryFallThrough

\* `except Exception` of safe_request
SafeCatchesMutant(exc) == IsInstance(exc, DefaultExceptions)
SafeCatches(exc) == IsInstance(exc, {"Exception"})

\* safe_request once _request() (the wrapper around it) has ended:
\* `return _request()`, or `except Exception: ... return None`
SafeRequestReturn ==
    /\ wrapped = "_request"
    /\ rt_pc \in {"returned", "raised"}
    /\ safe_result = "pending"
    /\ safe_result' = IF rt_pc = "returned" THEN "response"
                      ELSE IF SafeCatches(raised) THEN "None"
                      ELSE "propagated"
    /\ UNCHANGED retryVars
    /\ UNCHANGED notSafe

SafeNext == RetryAttempt \/ RetrySleep \/ RetryFallThrough \/ SafeRequestReturn

(***************************************************************************)
(* parser.py: _parse_nodes, _parse_node_line, _extract_node_name           *)
(***************************************************************************)

MAX_NODES == 300

\* `protocols` of _parse_node_line, in the order of the list
protocols == <<"vmess://", "vless://", "ss://", "ssr://", "trojan://",
               "hysteria://", "hysteria2://">>

\* protocol.replace('://', '')
StripScheme(prefix) ==
    CASE prefix = "vmess://"     -> "vmess"
      [] prefix = "vless://"     -> "vless"
      [] prefix = "ss://"        -> "ss"
      [] prefix = "ssr://"       -> "ssr"
      [] prefix = "trojan://"    -> "trojan"
      [] prefix = "hysteria://"  -> "hysteria"
      [] prefix = "hysteria2://" -> "hysteria2"
      [] OTHER                   -> prefix

\* A line of the decoded payload is a record
\*   [prefix: the text up to and including "://" ("" for a blank line),
\*    body:   the encoded part (an identifier),
\*    frag:   optional text after '#',
\*    ps:     optional 'ps' field of a vmess JSON body,
\*    host:   optional endpoint that NodeIPExtractor decodes from the line]
IsBlank(line) == line.prefix = ""

\* The characters of the texts that lines start with, in pieces: enough to
\* tell which text is a prefix of which ("ss://" and "ssr://", "hysteria://"
\* and "hysteria2://" share their first piece).
Chars(w) ==
    CASE w = ""             -> << >>
      [] w = "vmess://"     -> <<"vmess", "://">>
      [] w = "vless://"     -> <<"vless", "://">>
      [] w = "ss://"        -> <<"ss", "://">>
      [] w = "ssr://"       -> <<"ss", "r", "://">>
      [] w = "trojan://"    -> <<"trojan", "://">>
      [] w = "hysteria://"  -> <<"hysteria", "://">>
      [] w = "hysteria2://" -> <<"hysteria", "2", "://">>
      [] w = "hysteria3://" -> <<"hysteria", "3", "://">>
      [] w = "http://"      -> <<"http", "://">>
      [] w = "VMESS://"     -> <<"VMESS", "://">>
      [] OTHER              -> <<w>>

\* line.startswith(protocol)
StartsWithMutant(line, protocol) ==
    Chars(line.prefix) # << >> /\ Chars(line.prefix)[1] = Chars(protocol)[1]
StartsWith(line, protocol) ==
    /\ Len(Chars(line.prefix)) >= Len(Chars(protocol))
    /\ SubSeq(Chars(line.prefix), 1, Len(Chars(protocol))) = Chars(protocol)

\* urllib.parse.unquote on the fragments that occur (the names of the model
\* have no blank at either end, so the str.strip() that follows keeps them)
UnquoteMutant(w) == w
Unquote(w) ==
    CASE w = "US%7C02"  -> "US|02"
      [] w = "JP%2003"  -> "JP 03"
      [] OTHER          -> w

\* _extract_node_name
ExtractNodeName(line, protocol) ==
    IF line.frag # Nothing THEN Unquote(line.frag[1])
    ELSE IF protocol = "vmess://" /\ line.ps # Nothing THEN line.ps[1]
    ELSE "unnamed-node"

\* _parse_node_line: Some(node) for a line starting with a known prefix
\* (the first of `protocols` that matches), else Nothing
ParseNodeLine(line) ==
    LET hits == {k \in 1..Len(protocols) : StartsWith(line, protocols[k])} IN
    IF hits = {} THEN Nothing
    ELSE LET protocol == protocols[CHOOSE k \in hits : \A j \in hits : k <= j] IN
         Some([protocol |-> StripScheme(protocol),
               name     |-> ExtractNodeName(line, protocol),
               raw      |-> line])

\* `if len(nodes) >= MAX_NODES: break`, in both loops
CapReachedMutant(ns) == Len(ns) > MAX_NODES
CapReached(ns) == Len(ns) >= MAX_NODES

\* str.lower() on the proxy types that occur
Lower(t) ==
    CASE t = "SS"     -> "ss"
      [] t = "Vmess"  -> "vmess"
      [] t = "TROJAN" -> "trojan"
      [] t = ".YML"   -> ".yml"
      [] t = ".JSON"  -> ".json"
      [] t = "UTF-8"  -> "utf-8"
      [] OTHER        -> t

\* An entry of config['proxies'] is a record
\*   [isdict: isinstance(proxy, dict), keys: the keys present,
\*    name, type, server, port: the values, type_str: the type value is a str]
\* The node built from a dict entry; proxy.get('type', 'unknown').lower()
\* raises AttributeError when the value is not a str.
ProxyRaises(proxy) == "type" \in proxy.keys /\ ~proxy.type_str
ProxyNode(proxy) ==
    [name     |-> IF "name" \in proxy.keys THEN proxy.name ELSE "unknown-node",
     protocol |-> IF "type" \in proxy.keys THEN Lower(proxy.type) ELSE "unknown",
     server   |-> IF "server" \in proxy.keys THEN proxy.server ELSE EmptyStr,
     port     |-> IF "port" \in proxy.keys THEN proxy.port ELSE 0]

\* A payload is described by what the library calls of _parse_nodes make of
\* it (after the 300 KiB cut):
\*   clash: the Clash test of line 174 (leading '#', 'proxies:' or
\*          'proxy-groups:' in the first 1000 characters)
\*   yaml:  yaml.safe_load(content): "error" (it raises), "noproxies" (a
\*          falsy config or one without 'proxies'), "null" (proxies is not
\*          iterable), "list" (proxies is the list `proxies`)
\*   lines: the stripped Base64-decoded text, or the raw text when decoding
\*          fails, split on newlines
\* (the fields describe the content after the 300 KiB cut of line 176)
\* Whether the structured attempt is entered and whether yaml.safe_load or
\* the access to config['proxies'] lets it reach the loop over the proxies.
IsClash(c) == c.clash
YamlRaisesMutant(c) == c.yaml = "null"
YamlRaises(c) == c.yaml \in {"error", "null"}
HasProxies(c) == c.yaml = "list"

\* ---- the payloads the model parses ----
NodeNames == <<"HK-01", "US|02", "JP 03", "Airport-SG">>
\* the same names as they are written after '#': as they are, or quoted
WireNames == <<"HK-01", "US%7C02", "JP%2003", "Airport-SG">>
\* texts that start no node line
JunkPrefixes == <<"http://", "VMESS://", "hysteria3://", "invalid node format">>

NodeLine(i) ==
    [prefix |-> protocols[(i % Len(protocols)) + 1],
     body   |-> i,
     frag   |-> IF i % 5 = 0 THEN Nothing
                ELSE IF i % 3 = 0 THEN Some(NodeNames[(i % Len(NodeNames)) + 1])
                ELSE Some(WireNames[(i % Len(WireNames)) + 1]),
     ps     |-> IF i % 2 = 0 THEN Some("vmess-ps") ELSE Nothing,
     host   |-> IF i % 7 = 0 THEN Nothing ELSE Some(Ip(i))]
BlankLine == [prefix |-> "", body |-> 0, frag |-> Nothing, ps |-> Nothing, host |-> Nothing]
JunkLine(i) == [prefix |-> JunkPrefixes[(i % Len(JunkPrefixes)) + 1], body |-> i, frag |-> Nothing, ps |-> Nothing,
                host |-> Nothing]

ProxyTypes == <<"ss", "Vmess", "TROJAN", "hysteria2">>
ProxyEntry(i) ==
    [isdict |-> TRUE,
     keys   |-> IF i % 4 = 0 THEN {"name", "server"} ELSE {"name", "type", "server", "port"},
     name   |-> NodeNames[(i % Len(NodeNames)) + 1],
     type   |-> ProxyTypes[(i % Len(ProxyTypes)) + 1],
     type_str |-> TRUE,
     server |-> Ip(i),
     port   |-> 443]
ScalarEntry == [isdict |-> FALSE, keys |-> {}, name |-> "", type |-> "",
                type_str |-> TRUE, server |-> EmptyStr, port |-> 0]
BadTypeEntry(i) == [ProxyEntry(i) EXCEPT !.keys = {"name", "type"}, !.type_str = FALSE]

LinePatterns == {"valid", "blanks", "junk"}
LinesOf(n, pat) ==
    [i \in 1..n |->
        CASE pat = "blanks" /\ i % 2 = 0 -> BlankLine
          [] pat = "junk" /\ i % 3 = 0   -> JunkLine(i)
          [] OTHER                        -> NodeLine(i)]

ProxyPatterns == {"valid", "scalars", "badlast", "badfirst"}
ProxiesOf(n, pat) ==
    [i \in 1..n |->
        CASE pat = "scalars" /\ i % 3 = 0 -> ScalarEntry
          [] pat = "badlast" /\ i = n     -> BadTypeEntry(i)
          [] pat = "badfirst" /\ i = 1    -> BadTypeEntry(i)
          [] OTHER                         -> ProxyEntry(i)]

PayloadSizes == (0..SmallSize) \cup ((MAX_NODES - 2)..(MAX_NODES + MaxExtra))

Payloads ==
    {[clash |-> FALSE, yaml |-> "error", proxies |-> << >>, lines |-> LinesOf(n, pat)] :
        n \in PayloadSizes, pat \in LinePatterns}
    \cup
    {[clash |-> TRUE, yaml |-> "list", proxies |-> ProxiesOf(n, pat),
      lines |-> LinesOf(m, "valid")] :
        n \in PayloadSizes, pat \in ProxyPatterns, m \in {0, SmallSize, MAX_NODES}}
    \cup
    {[clash |-> TRUE, yaml |-> y, proxies |-> << >>, lines |-> LinesOf(n, "junk")] :
        y \in {"error", "noproxies", "null"}, n \in PayloadSizes}

\* _parse_nodes up to its first loop: the Clash test, yaml.safe_load and
\* `if config and 'proxies' in config`; a payload that is not Clash, or whose
\* YAML fails to load, goes to the encoded-lines path; a config without
\* proxies returns the empty list.
ParseStart ==
    /\ pn_pc = "call"
    /\ pn_i' = 1
    /\ pn_pc' = IF ~IsClash(content) \/ YamlRaises(content) THEN "lines"
                ELSE IF HasProxies(content) THEN "proxies"
                ELSE "done"
    /\ UNCHANGED <<content, nodes>>
    /\ UNCHANGED notParse

\* one iteration of `for proxy in config['proxies']`; the loop's end or its
\* break returns nodes; an exception goes on to the encoded-lines path with
\* the nodes collected so far still in `nodes`
ParseProxy ==
    /\ pn_pc = "proxies"
    /\ IF pn_i > Len(content.proxies) \/ CapReached(nodes)
         THEN /\ pn_pc' = "done"
              /\ UNCHANGED <<nodes, pn_i>>
         ELSE LET proxy == content.proxies[pn_i] IN
              IF ~proxy.isdict
                THEN /\ pn_i' = pn_i + 1
                     /\ UNCHANGED <<nodes, pn_pc>>
              ELSE IF ProxyRaises(proxy)
                THEN /\ pn_pc' = "lines"
                     /\ pn_i' = 1
                     /\ UNCHANGED nodes
              ELSE /\ nodes' = Append(nodes, ProxyNode(proxy))
                   /\ pn_i' = pn_i + 1
                   /\ UNCHANGED pn_pc
    /\ UNCHANGED content
    /\ UNCHANGED notParse

\* one iteration of `for line in lines`; the loop's end or its break
\* returns nodes
ParseLine ==
    /\ pn_pc = "lines"
    /\ IF pn_i > Len(content.lines) \/ CapReached(nodes)
         THEN /\ pn_pc' = "done"
              /\ UNCHANGED <<nodes, pn_i>>
         ELSE /\ nodes' = IF IsBlank(content.lines[pn_i]) THEN nodes
                          ELSE nodes \o ParseNodeLine(content.lines[pn_i])
              /\ pn_i' = pn_i + 1
              /\ UNCHANGED pn_pc
    /\ UNCHANGED content
    /\ UNCHANGED notParse

ParseNext == ParseStart \/ ParseProxy \/ ParseLine

(***************************************************************************)
(* node_extractor.py, geo_service.py and parser.py: _analyze_nodes         *)
(***************************************************************************)

MAX_GEO_QUERIES == 50
\* _maybe_persist_cache: save after 20 new entries or 30 seconds
SAVE_BATCH == 20
SAVE_INTERVAL == 30

\* executor threads running SubscriptionParser.parse
Threads == {"t1", "t2"}

\* NodeIPExtractor.extract_ip: the 'server' field of a Clash node, else the
\* endpoint decoded from the raw line according to the protocol
ExtractIp(node) ==
    IF "server" \in DOMAIN node THEN Some(node.server)
    ELSE IF node.protocol \in {"vmess", "vless", "trojan", "ss", "ssr",
                               "hysteria", "hysteria2"}
      THEN node.raw.host
    ELSE Nothing

\* NodeIPExtractor.is_valid_ip: a dotted quad with octets in 0..255, or a
\* string that matches domain_pattern
IsValidIpMutant(ip) ==
    ip.kind = "ipv4" /\ \A k \in 1..4 : ip.octets[k] >= 0 /\ ip.octets[k] <= 255
IsValidIp(ip) ==
    CASE ip.kind = "empty" -> FALSE
      [] ip.kind = "ipv4"  -> \A k \in 1..4 : ip.octets[k] >= 0 /\ ip.octets[k] <= 255
      [] ip.kind = "host"  -> TRUE
      [] OTHER             -> FALSE

\* is_valid_ip on a value that is not a str: re.match raises TypeError
IsValidIpRaises(ip) == ip.kind = "int"

\* truth value of `ip` in `if ip and ...`
Truthy(ipOpt) == ipOpt # Nothing /\ ipOpt[1].kind # "empty"

\* `geo_queries_count < MAX_GEO_QUERIES`
BudgetLeftMutant(count) == count <= MAX_GEO_QUERIES
BudgetLeft(count) == count < MAX_GEO_QUERIES

\* What ip-api.com knows of an endpoint, as get_location builds `location`
\* from a 'success' answer.  Countries are ASCII stand-ins for the strings
\* of the source.
GeoData(ip) ==
    LET k == IF ip.kind = "ipv4" THEN ip.octets[4] % 3 ELSE 0 IN
    [country      |-> CASE k = 0 -> "Japan" [] k = 1 -> "United States" [] OTHER -> "",
     city         |-> "city",
     isp          |-> "isp",
     country_code |-> CASE k = 0 -> "JP" [] k = 1 -> "US" [] OTHER -> ""]

\* the ways one request to the API can end
ApiOutcomes(mode) ==
    CASE mode = "up"   -> {"success"}
      [] mode = "down" -> {"exception"}
      [] mode = "fail" -> {"fail"}
      [] OTHER         -> {"success", "fail", "exception"}

\* get_location: `if not ip or ip == 'unknown': return None`
NotQueried(ip) == ip.kind = "empty" \/ ip = Host("unknown")

\* GeoLocationService.get_country_flag
CountryFlag(country_code) ==
    IF country_code \in {"JP", "US"} THEN <<"flag", country_code>> ELSE <<"globe">>

\* country_keywords of _match_country_by_keyword, in the order of the dict;
\* "zh:..." stand for the Chinese country names of the source
country_keywords ==
    <<[country |-> "zh:HongKong",  keywords |-> {"zh:HongKong", "HK", "Hong Kong", "Hongkong"}],
      [country |-> "zh:Taiwan",    keywords |-> {"zh:Taiwan", "TW", "Taiwan"}],
      [country |-> "zh:Japan",     keywords |-> {"zh:Japan", "JP", "Japan"}],
      [country |-> "zh:USA",       keywords |-> {"zh:USA", "US", "USA", "America"}],
      [country |-> "zh:Singapore", keywords |-> {"zh:Singapore", "SG", "Singapore"}],
      [country |-> "zh:Korea",     keywords |-> {"zh:Korea", "KR", "Korea"}]>>

\* the keywords that occur in a node name (`kw in node_name`)
KeywordsIn(node_name) ==
    CASE node_name = "HK-01"      -> {"HK"}
      [] node_name = "US|02"      -> {"US"}
      [] node_name = "JP 03"      -> {"JP"}
      [] node_name = "Airport-SG" -> {"SG"}
      [] node_name = "US-JP relay" -> {"US", "JP"}
      [] OTHER                    -> {}

\* _match_country_by_keyword: the first country of the table one of whose
\* keywords is in the name, else 'other'
MatchCountryByKeyword(node_name) ==
    LET hits == {k \in 1..Len(country_keywords) :
                    country_keywords[k].keywords \cap KeywordsIn(node_name) # {}} IN
    IF hits = {} THEN "zh:other"
    ELSE country_keywords[CHOOSE k \in hits : \A j \in hits : k <= j].country

AllCountries ==
    {country_keywords[k].country : k \in 1..Len(country_keywords)}
    \cup {"zh:other", "Japan", "United States", ""}

\* node.get(key, default)
NodeGet(node, key, default) == IF key \in DOMAIN node THEN node[key] ELSE default

\* The rest of one iteration of `for node in nodes` once get_location has
\* returned `location` (Nothing for None, and when no lookup was made):
\* lines 404-436.  `a` is the thread's locals; the result is the locals at
\* the start of the next iteration.
EndIteration(a, location) ==
    LET node == a.nodes[a.i]
        found == location # Nothing
        geo_country == location[1].country
        countries1 == IF found THEN Append(a.countries, geo_country) ELSE a.countries
        detail1 ==
            IF found /\ a.country_detail_count[geo_country] < 3
              THEN Some([name         |-> NodeGet(node, "name", "unknown"),
                         country      |-> geo_country,
                         city         |-> location[1].city,
                         isp          |-> location[1].isp,
                         country_code |-> location[1].country_code,
                         flag         |-> CountryFlag(location[1].country_code)])
              ELSE Nothing
        \* `if not country`
        fallback == ~found \/ geo_country = ""
        country == IF fallback THEN MatchCountryByKeyword(NodeGet(node, "name", ""))
                   ELSE geo_country
        countries2 == IF fallback THEN Append(countries1, country) ELSE countries1
        detail_obj ==
            IF fallback /\ a.country_detail_count[country] < 3
              THEN Some([name         |-> NodeGet(node, "name", "unknown"),
                         country      |-> country,
                         city         |-> "unknown",
                         isp          |-> "unknown",
                         country_code |-> "",
                         flag         |-> <<"globe">>])
              ELSE detail1
    IN  [a EXCEPT !.countries = countries2,
                  !.locations_detail = @ \o detail_obj,
                  !.country_detail_count =
                      IF detail_obj # Nothing THEN [@ EXCEPT ![country] = @ + 1] ELSE @,
                  !.i = @ + 1,
                  !.pc = "loop"]

\* should_save of _maybe_persist_cache
ShouldSave(force, new_entries, now, last_save) ==
    \/ force
    \/ new_entries >= SAVE_BATCH
    \/ now - last_save >= SAVE_INTERVAL

\* self.cache[ip] = location
CachePut(c, ip, location) ==
    [e \in DOMAIN c \cup {ip} |-> IF e = ip THEN location ELSE c[e]]

\* locals of a thread that runs no parse, and at the start of _analyze_nodes
ThreadAtRest ==
    [pc |-> "done", nodes |-> << >>, i |-> 1, geo_queries_count |-> 0,
     countries |-> << >>, locations_detail |-> << >>,
     country_detail_count |-> [c \in AllCountries |-> 0],
     ip |-> EmptyStr, location |-> GeoData(EmptyStr), tmp |-> 0, size |-> 0]
ThreadStart(ns) == [ThreadAtRest EXCEPT !.pc = "loop", !.nodes = ns]

\* thread t's call of _analyze_nodes has returned or raised
Finished(t) == th[t].pc \in {"done", "raised"}

\* ---- the actions of a thread t inside _analyze_nodes ----

\* Start of one iteration of `for node in nodes`: extract_ip, is_valid_ip and
\* the budget test; when they pass, geo_queries_count += 1 and get_location
\* runs up to its cache test: a hit returns the cached location, a miss goes
\* on to the HTTP request.  Otherwise the iteration ends by the fallback.
AnalyzeNode(t) ==
    LET a == th[t]
        ipOpt == ExtractIp(a.nodes[a.i])
        ip == ipOpt[1]
    IN  /\ a.pc = "loop"
        /\ a.i <= Len(a.nodes)
        /\ IF Truthy(ipOpt) /\ IsValidIpRaises(ip)
             THEN /\ th' = [th EXCEPT ![t].pc = "raised"]
                  /\ UNCHANGED max_hit_age
           ELSE IF Truthy(ipOpt) /\ IsValidIp(ip) /\ BudgetLeft(a.geo_queries_count)
             THEN LET b == [a EXCEPT !.geo_queries_count = @ + 1, !.ip = ip] IN
                  IF NotQueried(ip)
                    THEN /\ th' = [th EXCEPT ![t] = EndIteration(b, Nothing)]
                         /\ UNCHANGED max_hit_age
                  ELSE IF ip \in DOMAIN cache
                    THEN /\ th' = [th EXCEPT ![t] = EndIteration(b, Some(cache[ip]))]
                         /\ max_hit_age' = IF clock - inserted_at[ip] > max_hit_age
                                             THEN clock - inserted_at[ip] ELSE max_hit_age
                  ELSE /\ th' = [th EXCEPT ![t] = [b EXCEPT !.pc = "http"]]
                       /\ UNCHANGED max_hit_age
             ELSE /\ th' = [th EXCEPT ![t] = EndIteration(a, Nothing)]
                  /\ UNCHANGED max_hit_age
        /\ UNCHANGED <<cache, cache_dirty, cache_new_entries, last_cache_save, cache_file,
                       clock, ticks_left, api_mode, disk, inserted_at, lookup_log>>
        /\ UNCHANGED notGeo

\* the loop is over: the statistics are returned
AnalyzeReturn(t) ==
    /\ th[t].pc = "loop"
    /\ th[t].i > Len(th[t].nodes)
    /\ th' = [th EXCEPT ![t].pc = "done"]
    /\ UNCHANGED <<cache, cache_dirty, cache_new_entries, last_cache_save, cache_file,
                   clock, ticks_left, api_mode, disk, inserted_at, lookup_log, max_hit_age>>
    /\ UNCHANGED notGeo

\* get_location lines 110-123 and 130-135: self.session.get and the answer.
\* A 'success' answer builds `location`; a failed status or an exception
\* returns None, and the iteration ends by the fallback.
GeoRequest(t) ==
    /\ th[t].pc = "http"
    /\ lookup_log' = Append(lookup_log, [ip |-> th[t].ip, at |-> clock, thread |-> t])
    /\ \E outcome \in ApiOutcomes(api_mode) :
        IF outcome = "success"
          THEN th' = [th EXCEPT ![t] = [@ EXCEPT !.location = GeoData(th[t].ip),
                                                 !.pc = "insert"]]
          ELSE th' = [th EXCEPT ![t] = EndIteration(th[t], Nothing)]
    /\ UNCHANGED <<cache, cache_dirty, cache_new_entries, last_cache_save, cache_file,
                   clock, ticks_left, api_mode, disk, inserted_at, max_hit_age>>
    /\ UNCHANGED notGeo

\* line 124: self.cache[ip] = location
CacheInsert(t) ==
    /\ th[t].pc = "insert"
    /\ cache' = CachePut(cache, th[t].ip, th[t].location)
    /\ inserted_at' = CachePut(inserted_at, th[t].ip, clock)
    /\ th' = [th EXCEPT ![t].pc = "dirty"]
    /\ UNCHANGED <<cache_dirty, cache_new_entries, last_cache_save, cache_file,
                   clock, ticks_left, api_mode, disk, lookup_log, max_hit_age>>
    /\ UNCHANGED notGeo

\* line 125: self._cache_dirty = True
MarkDirty(t) ==
    /\ th[t].pc = "dirty"
    /\ cache_dirty' = TRUE
    /\ th' = [th EXCEPT ![t].pc = "inc_read"]
    /\ UNCHANGED <<cache, cache_new_entries, last_cache_save, cache_file,
                   clock, ticks_left, api_mode, disk, inserted_at, lookup_log, max_hit_age>>
    /\ UNCHANGED notGeo

\* line 126: self._cache_new_entries += 1, the read of the attribute ...
IncRead(t) ==
    /\ th[t].pc = "inc_read"
    /\ th' = [th EXCEPT ![t] = [@ EXCEPT !.tmp = cache_new_entries, !.pc = "inc_write"]]
    /\ UNCHANGED <<cache, cache_dirty, cache_new_entries, last_cache_save, cache_file,
                   clock, ticks_left, api_mode, disk, inserted_at, lookup_log, max_hit_age>>
    /\ UNCHANGED notGeo

\* ... and the store of the sum
IncWrite(t) ==
    /\ th[t].pc = "inc_write"
    /\ cache_new_entries' = th[t].tmp + 1
    /\ th' = [th EXCEPT ![t].pc = "persist"]
    /\ UNCHANGED <<cache, cache_dirty, last_cache_save, cache_file,
                   clock, ticks_left, api_mode, disk, inserted_at, lookup_log, max_hit_age>>
    /\ UNCHANGED notGeo

\* _maybe_persist_cache() up to the call of _save_cache: nothing to do when
\* the cache is clean or no threshold is reached, and get_location returns
\* `location`
MaybePersist(t) ==
    /\ th[t].pc = "persist"
    /\ IF cache_dirty /\ ShouldSave(FALSE, cache_new_entries, clock, last_cache_save)
         THEN th' = [th EXCEPT ![t].pc = "save_open"]
         ELSE th' = [th EXCEPT ![t] = EndIteration(th[t], Some(th[t].location))]
    /\ UNCHANGED <<cache, cache_dirty, cache_new_entries, last_cache_save, cache_file,
                   clock, ticks_left, api_mode, disk, inserted_at, lookup_log, max_hit_age>>
    /\ UNCHANGED notGeo

\* _save_cache: open(self._cache_file, 'w') truncates the file, and json.dump
\* starts to iterate over the dict; an open that fails leaves the file as it
\* was (the exception is logged and swallowed)
SaveOpen(t) ==
    /\ th[t].pc = "save_open"
    /\ \E opened \in IF disk = "ok" THEN {TRUE} ELSE BOOLEAN :
        IF opened
          THEN /\ cache_file' = [state |-> "partial", data |-> << >>]
               /\ th' = [th EXCEPT ![t] = [@ EXCEPT !.size = Cardinality(DOMAIN cache),
                                                      !.pc = "save_dump"]]
          ELSE /\ UNCHANGED cache_file
               /\ th' = [th EXCEPT ![t].pc = "clean_dirty"]
    /\ UNCHANGED <<cache, cache_dirty, cache_new_entries, last_cache_save,
                   clock, ticks_left, api_mode, disk, inserted_at, lookup_log, max_hit_age>>
    /\ UNCHANGED notGeo

\* _save_cache: json.dump ends.  When another thread has inserted a key in the
\* meantime the iteration raises "dictionary changed size during iteration",
\* which is logged and swallowed, and the file stays partly written.
SaveDump(t) ==
    /\ th[t].pc = "save_dump"
    /\ cache_file' = IF Cardinality(DOMAIN cache) = th[t].size
                       THEN [state |-> "ok", data |-> cache]
                       ELSE [state |-> "partial", data |-> << >>]
    /\ th' = [th EXCEPT ![t].pc = "clean_dirty"]
    /\ UNCHANGED <<cache, cache_dirty, cache_new_entries, last_cache_save,
                   clock, ticks_left, api_mode, disk, inserted_at, lookup_log, max_hit_age>>
    /\ UNCHANGED notGeo

\* _maybe_persist_cache line 90: self._cache_dirty = False
CleanDirty(t) ==
    /\ th[t].pc = "clean_dirty"
    /\ cache_dirty' = FALSE
    /\ th' = [th EXCEPT ![t].pc = "clean_count"]
    /\ UNCHANGED <<cache, cache_new_entries, last_cache_save, cache_file,
                   clock, ticks_left, api_mode, disk, inserted_at, lookup_log, max_hit_age>>
    /\ UNCHANGED notGeo

\* _maybe_persist_cache lines 91-92, and get_location returns `location`
CleanCount(t) ==
    /\ th[t].pc = "clean_count"
    /\ cache_new_entries' = 0
    /\ last_cache_save' = clock
    /\ th' = [th EXCEPT ![t] = EndIteration(th[t], Some(th[t].location))]
    /\ UNCHANGED <<cache, cache_dirty, cache_file,
                   clock, ticks_left, api_mode, disk, inserted_at, lookup_log, max_hit_age>>
    /\ UNCHANGED notGeo

\* time.monotonic() advances: by a save interval at any point, by a day only
\* between two parses (no thread is inside a call of _analyze_nodes)
ClockSteps == {30, 86400}
Tick ==
    /\ proc = "running"
    /\ ticks_left > 0
    /\ \E th_running \in Threads : ~Finished(th_running)
    /\ \E d \in ClockSteps :
          /\ d > 30 => \A t \in Threads :
                          Finished(t) \/ (th[t].pc = "loop" /\ th[t].i = 1)
          /\ clock' = clock + d
    /\ ticks_left' = ticks_left - 1
    /\ UNCHANGED <<cache, cache_dirty, cache_new_entries, last_cache_save, cache_file,
                   api_mode, disk, inserted_at, lookup_log, max_hit_age, th>>
    /\ UNCHANGED notGeo

\* ---- the end of the process ----

\* Normal exit: the executor threads are joined, then the atexit hook runs
\* _maybe_persist_cache(force=True), which returns at once when the cache is
\* not dirty.
ExitHook ==
    /\ proc = "running"
    /\ \A t \in Threads : Finished(t)
    /\ proc' = IF cache_dirty /\ ShouldSave(TRUE, cache_new_entries, clock, last_cache_save)
                 THEN "hook" ELSE "exited"
    /\ UNCHANGED geoVars
    /\ UNCHANGED notProc

\* the hook's _save_cache: open(self._cache_file, 'w'); a failed open is
\* logged and swallowed, and the hook ends as after a save
ExitSaveOpen ==
    /\ proc = "hook"
    /\ \E opened \in IF disk = "ok" THEN {TRUE} ELSE BOOLEAN :
        IF opened
          THEN /\ cache_file' = [state |-> "partial", data |-> << >>]
               /\ proc' = "hook_dump"
               /\ UNCHANGED <<cache_dirty, cache_new_entries, last_cache_save>>
          ELSE /\ UNCHANGED cache_file
               /\ cache_dirty' = FALSE
               /\ cache_new_entries' = 0
               /\ last_cache_save' = clock
               /\ proc' = "exited"
    /\ UNCHANGED <<cache, clock, ticks_left, api_mode, disk, inserted_at, lookup_log,
                   max_hit_age, th>>
    /\ UNCHANGED notProc

\* the hook's json.dump ends and _maybe_persist_cache resets the counters
ExitSaveDump ==
    /\ proc = "hook_dump"
    /\ cache_file' = [state |-> "ok", data |-> cache]
    /\ cache_dirty' = FALSE
    /\ cache_new_entries' = 0
    /\ last_cache_save' = clock
    /\ proc' = "exited"
    /\ UNCHANGED <<cache, clock, ticks_left, api_mode, disk, inserted_at, lookup_log,
                   max_hit_age, th>>
    /\ UNCHANGED notProc

\* The process is killed (SIGKILL, power loss): every thread stops where it
\* is and no hook runs; the file stays as the last write left it.
Kill ==
    /\ proc \in {"running", "hook", "hook_dump"}
    /\ \/ proc # "running"
       \/ \E t \in Threads : ~Finished(t)
    /\ proc' = "killed"
    /\ th' = [t \in Threads |->
                IF Finished(t) THEN th[t] ELSE [th[t] EXCEPT !.pc = "killed"]]
    /\ UNCHANGED <<cache, cache_dirty, cache_new_entries, last_cache_save, cache_file,
                   clock, ticks_left, api_mode, disk, inserted_at, lookup_log, max_hit_age>>
    /\ UNCHANGED notProc

GeoNext ==
    \/ \E t \in Threads :
        \/ AnalyzeNode(t) \/ AnalyzeReturn(t) \/ GeoRequest(t) \/ CacheInsert(t)
        \/ MarkDirty(t) \/ IncRead(t) \/ IncWrite(t) \/ MaybePersist(t)
        \/ SaveOpen(t) \/ SaveDump(t) \/ CleanDirty(t) \/ CleanCount(t)
    \/ Tick
    \/ ExitHook \/ ExitSaveOpen \/ ExitSaveDump \/ Kill

\* ---- the node lists the model analyses ----
GeoNames == <<"HK-01", "US|02", "JP 03", "Airport-SG", "node-5", "US-JP relay">>
GeoName(k) == GeoNames[(k % Len(GeoNames)) + 1]

ClashNode(k, server) ==
    [name |-> GeoName(k), protocol |-> "ss", server |-> server, port |-> 443]
LineNode(k, host) ==
    [protocol |-> "trojan", name |-> GeoName(k),
     raw |-> [prefix |-> "trojan://", body |-> k, frag |-> Some(GeoName(k)),
              ps |-> Nothing, host |-> host]]

NodePatterns == {"distinct", "same", "pairs", "mixed", "badserver", "cached"}
NodeListOf(n, pat) ==
    [k \in 1..n |->
        CASE pat = "distinct" -> ClashNode(k, Ip(k))
          [] pat = "badserver" -> ClashNode(k, IF k = 2 THEN IntServer ELSE Ip(k))
          [] pat = "same"     -> LineNode(k, Some(Ip(1)))
          [] pat = "pairs"    -> ClashNode(k, Ip((k + 1) \div 2))
          \* endpoints 2, 3, ...: the first ones are those of LoadedCache
          [] pat = "cached"   -> ClashNode(k, Ip(k + 1))
          [] OTHER            ->
               CASE k % 5 = 0 -> ClashNode(k, Host("jp.example.com"))
                 [] k % 5 = 1 -> ClashNode(k, Ip(k))
                 [] k % 5 = 2 -> LineNode(k, Nothing)
                 [] k % 5 = 3 -> ClashNode(k, Ipv6)
                 [] OTHER     -> ClashNode(k, BadOctetIp)]

GeoSizes == (0..SmallGeo) \cup ((MAX_GEO_QUERIES - 1)..(MAX_GEO_QUERIES + GeoExtra))

\* the cache that _load_cache reads from a file of k entries (endpoints 2,
\* 3, ..., so that endpoint 1 is never in the file)
LoadedCache(k) == [e \in {Ip(j + 1) : j \in 1..k} |-> GeoData(e)]

(***************************************************************************)
(* URL batches of the bot (bot_async.py): check_command, handle_document   *)
(* and handle_subscription each create one asyncio.Semaphore(3), one task  *)
(* per URL, and gather the tasks.  A task parses inside `async with        *)
(* semaphore`, the parse itself running in the executor.                   *)
(***************************************************************************)

MaxSubs == 4

\* the argument of asyncio.Semaphore(...)
ParseSlots == 3

Handlers == {"check_command", "handle_subscription", "handle_document"}

\* a line of the message, as urlparse splits it
Url(k) == [scheme |-> "https", netloc |-> "sub.example", path |-> k]
NoNetloc(k) == [scheme |-> "vmess", netloc |-> "", path |-> k]
PlainText(k) == [scheme |-> "", netloc |-> "", path |-> k]
FtpUrl(k) == [scheme |-> "ftp", netloc |-> "example.com", path |-> k]

\* utils.is_valid_url: all([result.scheme, result.netloc])
is_valid_url(url) == url.scheme # "" /\ url.netloc # ""

\* Semaphore.locked(), the test of acquire(): no slot is left
LockedMutant(value) == value < 0
Locked(value) == value = 0

\* what one call of parse can do: return a result, return a result whose
\* 'remaining' is <= 0, or raise
ParseOutcomes == {"ok", "exhausted", "raises"}

\* the 'status' a task ends with; only check_one raises on remaining <= 0
StatusOf(h, outcome) ==
    IF outcome = "raises" THEN "failed"
    ELSE IF outcome = "exhausted" /\ h = "check_command" THEN "failed"
    ELSE "success"

\* the parse calls that are in flight
InFlight == {s \in DOMAIN task_pc : task_pc[s] = "parsing"}

Max(a, b) == IF a >= b THEN a ELSE b

\* process_one up to the semaphore: an invalid line is answered and the task
\* returns; a valid one gets its progress message and goes on to the gate.
ProcessOneStart(s) ==
    /\ task_pc[s] = "start"
    /\ IF is_valid_url(urls[s])
       THEN /\ task_pc' = [task_pc EXCEPT ![s] = "acquire"]
            /\ results' = results
       ELSE /\ task_pc' = [task_pc EXCEPT ![s] = "done"]
            /\ results' = [results EXCEPT ![s] = "invalid"]
    /\ UNCHANGED <<handler, urls, semaphore, parse_calls, batch_pc, max_in_flight>>
    /\ UNCHANGED notBot

\* `async with semaphore:` entered, parse handed to the executor
Acquire(s) ==
    /\ task_pc[s] = "acquire"
    /\ ~Locked(semaphore)
    /\ semaphore' = semaphore - 1
    /\ task_pc' = [task_pc EXCEPT ![s] = "parsing"]
    /\ parse_calls' = [parse_calls EXCEPT ![s] = @ + 1]
    /\ max_in_flight' = Max(max_in_flight, Cardinality(InFlight) + 1)
    /\ UNCHANGED <<handler, urls, results, batch_pc>>
    /\ UNCHANGED notBot

\* the parse call comes back; try / except turns it into a status
ParseReturn(s) ==
    /\ task_pc[s] = "parsing"
    /\ \E outcome \in ParseOutcomes :
          results' = [results EXCEPT ![s] = StatusOf(handler, outcome)]
    /\ task_pc' = [task_pc EXCEPT ![s] = "report"]
    /\ UNCHANGED <<handler, urls, semaphore, parse_calls, batch_pc, max_in_flight>>
    /\ UNCHANGED notBot

\* the rest of the `async with` body (store update, progress and replies),
\* then the semaphore is released
TaskExit(s) ==
    /\ task_pc[s] = "report"
    /\ semaphore' = semaphore + 1
    /\ task_pc' = [task_pc EXCEPT ![s] = "done"]
    /\ UNCHANGED <<handler, urls, parse_calls, results, batch_pc, max_in_flight>>
    /\ UNCHANGED notBot

\* asyncio.gather returns, store.end_batch(save=True)
EndBatch ==
    /\ batch_pc = "gather"
    /\ \A s \in DOMAIN task_pc : task_pc[s] = "done"
    /\ batch_pc' = "ended"
    /\ UNCHANGED <<handler, urls, semaphore, task_pc, parse_calls, results, max_in_flight>>
    /\ UNCHANGED notBot

TaskStep(s) ==
    /\ s \in DOMAIN task_pc
    /\ (ProcessOneStart(s) \/ Acquire(s) \/ ParseReturn(s) \/ TaskExit(s))

BotNext ==
    \/ \E s \in DOMAIN task_pc :
        \/ ProcessOneStart(s) \/ Acquire(s) \/ ParseReturn(s) \/ TaskExit(s)
    \/ EndBatch

\* ---- the batches the model runs ----
UrlPatterns == {"urls", "one_invalid", "mixed", "ftp"}
BatchOf(n, pat) ==
    [k \in 1..n |->
        IF pat = "one_invalid" /\ k = 1 THEN PlainText(k)
        ELSE IF pat = "mixed" /\ k % 2 = 0 THEN NoNetloc(k)
        ELSE IF pat = "ftp" /\ k % 2 = 1 THEN FtpUrl(k)
        ELSE Url(k)]

(***************************************************************************)
(* SubscriptionParser._parse_traffic_info (parser.py): the traffic fields  *)
(* of the subscription-userinfo response header.                           *)
(***************************************************************************)

\* A header value as written on the wire: decimal digits (with a sign), or
\* some other text.  int(value) parses the first and raises ValueError on
\* the second.
Digits(n) == [kind |-> "digits", n |-> n]
Text(w) == [kind |-> "text", w |-> w]
IntOf(value) == IF value.kind = "digits" THEN Some(value.n) ELSE Nothing

\* one `part` of userinfo.split(';'): "key=value", or text without '='
Part(key, value) == [eq |-> TRUE, key |-> key, value |-> value]
NoEqPart(w) == [eq |-> FALSE, key |-> w, value |-> Text("")]

\* traffic_info[key] = value
DictSet(d, key, value) ==
    [k \in DOMAIN d \cup {key} |-> IF k = key THEN value ELSE d[k]]

\* datetime.fromtimestamp(ts).strftime('%Y-%m-%d %H:%M:%S'); the timestamps
\* of the model are in datetime's range (one out of it raises inside the
\* try, like a non-numeric value)
ExpireTime(ts) == [strftime |-> "%Y-%m-%d %H:%M:%S", of |-> ts]

\* lines 147-156: the derived fields
DerivedMutant(d) ==
    LET get(k) == IF k \in DOMAIN d THEN d[k] ELSE 0
        used == get("upload") + get("download")
    IN  DictSet(DictSet(d, "used", used), "remaining", get("total") - used)
Derived(d) ==
    LET d1 == IF "upload" \in DOMAIN d /\ "download" \in DOMAIN d
                THEN DictSet(d, "used", d["upload"] + d["download"]) ELSE d
        d2 == IF "total" \in DOMAIN d1 /\ "used" \in DOMAIN d1
                THEN DictSet(d1, "remaining", d1["total"] - d1["used"]) ELSE d1
    IN  IF "total" \in DOMAIN d1 /\ "used" \in DOMAIN d1 /\ d1["total"] > 0
          \* (used / total) * 100, kept as an exact fraction
          THEN DictSet(d2, "usage_percent",
                       [num |-> d1["used"] * 100, den |-> d1["total"]])
          ELSE d2

\* headers.get('subscription-userinfo', '') and `if userinfo:`; with no
\* header (or an empty one) the empty dict is returned
TrafficStart ==
    /\ ti_pc = "call"
    /\ ti_pc' = IF userinfo = << >> THEN "done" ELSE "loop"
    /\ UNCHANGED <<userinfo, ti_i, traffic_info, ti_raised>>
    /\ UNCHANGED notTraffic

\* one iteration of `for part in parts`
TrafficPart ==
    /\ ti_pc = "loop"
    /\ ti_i <= Len(userinfo)
    /\ LET part == userinfo[ti_i] IN
        IF ~part.eq \/ part.key \notin {"upload", "download", "total", "expire"}
          THEN /\ ti_i' = ti_i + 1
               /\ UNCHANGED <<ti_pc, traffic_info, ti_raised>>
        ELSE IF part.key = "expire"
          THEN /\ ti_i' = ti_i + 1
               /\ traffic_info' =
                    IF IntOf(part.value) # Nothing
                      THEN DictSet(traffic_info, "expire_time",
                                   ExpireTime(IntOf(part.value)[1]))
                      ELSE traffic_info
               /\ UNCHANGED <<ti_pc, ti_raised>>
        \* traffic_info[key] = int(value), outside any try
        ELSE IF IntOf(part.value) # Nothing
          THEN /\ ti_i' = ti_i + 1
               /\ traffic_info' = DictSet(traffic_info, part.key, IntOf(part.value)[1])
               /\ UNCHANGED <<ti_pc, ti_raised>>
          ELSE /\ ti_pc' = "raised"
               /\ ti_raised' = "ValueError"
               /\ UNCHANGED <<ti_i, traffic_info>>
    /\ UNCHANGED userinfo
    /\ UNCHANGED notTraffic

\* the loop is over: the derived fields are computed and the dict returned
TrafficReturn ==
    /\ ti_pc = "loop"
    /\ ti_i > Len(userinfo)
    /\ traffic_info' = Derived(traffic_info)
    /\ ti_pc' = "done"
    /\ UNCHANGED <<userinfo, ti_i, ti_raised>>
    /\ UNCHANGED notTraffic

TrafficNext == TrafficStart \/ TrafficPart \/ TrafficReturn

\* ---- the headers the model parses ----
Absent == Text("absent")
UploadValues == {Absent, Digits(0), Digits(1000), Text("abc")}
DownloadValues == {Absent, Digits(2000), Text("1.5e3")}
TotalValues == {Absent, Digits(-1), Digits(0), Digits(2000), Digits(10000), Text("")}
ExpireValues == {Absent, Digits(1735689600), Digits(0), Text("never")}
ExtraParts == {<< >>, <<Part("plan", Text("pro"))>>, <<NoEqPart("garbage")>>}
PartIf(key, value) == IF value = Absent THEN << >> ELSE <<Part(key, value)>>
UserinfoOf(up, down, total, expire, extra) ==
    PartIf("upload", up) \o extra \o PartIf("total", total)
      \o PartIf("expire", expire) \o PartIf("download", down)

(***************************************************************************)
(* Initial states: one machine starts, the others are at rest              *)
(***************************************************************************)

\* A call of a wrapper: the decorator's arguments are drawn, the rest of the
\* program is at rest.
RetryInit ==
    /\ rt_pc = "loop"
    /\ wrapped \in {"_fetch", "_request"}
    /\ max_retries \in 0..MaxRetriesBound
    /\ initial_delay \in InitialDelays
    /\ backoff_factor \in BackoffFactors
    /\ attempt = 0
    /\ delay = initial_delay
    /\ last_exception = None
    /\ raised = None
    /\ call_trace = << >>
    /\ sleeps = << >>
    /\ safe_result = "pending"
    /\ user_data = << >>
    /\ im_store = << >>
    /\ im_log = << >>
    /\ im_left = 0
    /\ im_clock = 0
    /\ ck_pc = "idle"
    /\ ck_store = << >>
    /\ ck_before = << >>
    /\ ck_tag = Nothing
    /\ ck_subs = {}
    /\ ck_task = << >>
    /\ ck_sem = 0
    /\ ck_results = << >>
    /\ ck_report = Nothing
    /\ ck_clock = 0
    /\ url_cache = << >>
    /\ cb_clock = 0
    /\ cb_ticks = 0
    /\ cb_ops_left = 0
    /\ last_cb = [kind |-> "none"]
    /\ pending_tag_url = Nothing
    /\ cls_instance = Nothing
    /\ objs = << >>
    /\ ctor = [t \in Threads |-> [pc |-> "idle", self |-> 0, left |-> 0]]
    /\ init_runs = 0
    /\ hooks = 0
    /\ returned = {}
    /\ sg_file = {}
    /\ fh_pc = "idle"
    /\ fh_file = [file_type |-> "none", content |-> EmptyPayload]
    /\ fh_nodes = << >>
    /\ fh_i = 1
    /\ analyzed = Nothing
    /\ st_pc = "idle"
    /\ subscriptions = << >>
    /\ files = [f \in {"data", "tmp", "export"} |-> AbsentFile]
    /\ batch = FALSE
    /\ batch_writes = 0
    /\ st_clock = 0
    /\ ops_left = 0
    /\ faults_left = 0
    /\ last_op = [op |-> "none"]
    /\ prev_data = AbsentFile
    /\ save_status = "none"
    /\ exported = Nothing
    /\ pn_pc = "idle"
    /\ content = EmptyPayload
    /\ nodes = << >>
    /\ pn_i = 1
    /\ cache = << >>
    /\ cache_dirty = FALSE
    /\ cache_new_entries = 0
    /\ last_cache_save = 0
    /\ cache_file = [state |-> "absent", data |-> << >>]
    /\ clock = 0
    /\ ticks_left = 0
    /\ api_mode = "up"
    /\ disk = "ok"
    /\ inserted_at = << >>
    /\ lookup_log = << >>
    /\ max_hit_age = 0
    /\ th = [t \in Threads |-> ThreadAtRest]
    /\ handler = "none"
    /\ urls = << >>
    /\ semaphore = ParseSlots
    /\ task_pc = << >>
    /\ parse_calls = << >>
    /\ results = << >>
    /\ batch_pc = "idle"
    /\ max_in_flight = 0
    /\ proc = "running"
    /\ ti_pc = "idle"
    /\ userinfo = << >>
    /\ ti_i = 1
    /\ traffic_info = << >>
    /\ ti_raised = None
    /\ an_pc = "idle"
    /\ an_headers = Nothing
    /\ an_nodes = << >>
    /\ an_url = [netloc |-> << >>]
    /\ an_k = 1
    /\ common_patterns = << >>
    /\ airport_name = << >>

\* safe_request(url, method, max_retries): @retry_on_failure(max_retries=max_retries)
\* with the defaults of the other arguments
SafeInit ==
    /\ rt_pc = "loop"
    /\ wrapped = "_request"
    /\ max_retries \in 0..MaxRetriesBound
    /\ initial_delay = 10
    /\ backoff_factor = 2
    /\ attempt = 0
    /\ delay = 10
    /\ last_exception = None
    /\ raised = None
    /\ call_trace = << >>
    /\ sleeps = << >>
    /\ safe_result = "pending"
    /\ user_data = << >>
    /\ im_store = << >>
    /\ im_log = << >>
    /\ im_left = 0
    /\ im_clock = 0
    /\ ck_pc = "idle"
    /\ ck_store = << >>
    /\ ck_before = << >>
    /\ ck_tag = Nothing
    /\ ck_subs = {}
    /\ ck_task = << >>
    /\ ck_sem = 0
    /\ ck_results = << >>
    /\ ck_report = Nothing
    /\ ck_clock = 0
    /\ url_cache = << >>
    /\ cb_clock = 0
    /\ cb_ticks = 0
    /\ cb_ops_left = 0
    /\ last_cb = [kind |-> "none"]
    /\ pending_tag_url = Nothing
    /\ cls_instance = Nothing
    /\ objs = << >>
    /\ ctor = [t \in Threads |-> [pc |-> "idle", self |-> 0, left |-> 0]]
    /\ init_runs = 0
    /\ hooks = 0
    /\ returned = {}
    /\ sg_file = {}
    /\ fh_pc = "idle"
    /\ fh_file = [file_type |-> "none", content |-> EmptyPayload]
    /\ fh_nodes = << >>
    /\ fh_i = 1
    /\ analyzed = Nothing
    /\ st_pc = "idle"
    /\ subscriptions = << >>
    /\ files = [f \in {"data", "tmp", "export"} |-> AbsentFile]
    /\ batch = FALSE
    /\ batch_writes = 0
    /\ st_clock = 0
    /\ ops_left = 0
    /\ faults_left = 0
    /\ last_op = [op |-> "none"]
    /\ prev_data = AbsentFile
    /\ save_status = "none"
    /\ exported = Nothing
    /\ pn_pc = "idle"
    /\ content = EmptyPayload
    /\ nodes = << >>
    /\ pn_i = 1
    /\ cache = << >>
    /\ cache_dirty = FALSE
    /\ cache_new_entries = 0
    /\ last_cache_save = 0
    /\ cache_file = [state |-> "absent", data |-> << >>]
    /\ clock = 0
    /\ ticks_left = 0
    /\ api_mode = "up"
    /\ disk = "ok"
    /\ inserted_at = << >>
    /\ lookup_log = << >>
    /\ max_hit_age = 0
    /\ th = [t \in Threads |-> ThreadAtRest]
    /\ handler = "none"
    /\ urls = << >>
    /\ semaphore = ParseSlots
    /\ task_pc = << >>
    /\ parse_calls = << >>
    /\ results = << >>
    /\ batch_pc = "idle"
    /\ max_in_flight = 0
    /\ proc = "running"
    /\ ti_pc = "idle"
    /\ userinfo = << >>
    /\ ti_i = 1
    /\ traffic_info = << >>
    /\ ti_raised = None
    /\ an_pc = "idle"
    /\ an_headers = Nothing
    /\ an_nodes = << >>
    /\ an_url = [netloc |-> << >>]
    /\ an_k = 1
    /\ common_patterns = << >>
    /\ airport_name = << >>

\* A call of _parse_nodes on a payload.
ParseInit ==
    /\ pn_pc = "call"
    /\ content \in Payloads
    /\ nodes = << >>
    /\ pn_i = 1
    /\ rt_pc = "idle"
    /\ wrapped = "_fetch"
    /\ max_retries = 3
    /\ initial_delay = 10
    /\ backoff_factor = 2
    /\ attempt = 0
    /\ delay = 10
    /\ last_exception = None
    /\ raised = None
    /\ call_trace = << >>
    /\ sleeps = << >>
    /\ safe_result = "pending"
    /\ user_data = << >>
    /\ im_store = << >>
    /\ im_log = << >>
    /\ im_left = 0
    /\ im_clock = 0
    /\ ck_pc = "idle"
    /\ ck_store = << >>
    /\ ck_before = << >>
    /\ ck_tag = Nothing
    /\ ck_subs = {}
    /\ ck_task = << >>
    /\ ck_sem = 0
    /\ ck_results = << >>
    /\ ck_report = Nothing
    /\ ck_clock = 0
    /\ url_cache = << >>
    /\ cb_clock = 0
    /\ cb_ticks = 0
    /\ cb_ops_left = 0
    /\ last_cb = [kind |-> "none"]
    /\ pending_tag_url = Nothing
    /\ cls_instance = Nothing
    /\ objs = << >>
    /\ ctor = [t \in Threads |-> [pc |-> "idle", self |-> 0, left |-> 0]]
    /\ init_runs = 0
    /\ hooks = 0
    /\ returned = {}
    /\ sg_file = {}
    /\ fh_pc = "idle"
    /\ fh_file = [file_type |-> "none", content |-> EmptyPayload]
    /\ fh_nodes = << >>
    /\ fh_i = 1
    /\ analyzed = Nothing
    /\ st_pc = "idle"
    /\ subscriptions = << >>
    /\ files = [f \in {"data", "tmp", "export"} |-> AbsentFile]
    /\ batch = FALSE
    /\ batch_writes = 0
    /\ st_clock = 0
    /\ ops_left = 0
    /\ faults_left = 0
    /\ last_op = [op |-> "none"]
    /\ prev_data = AbsentFile
    /\ save_status = "none"
    /\ exported = Nothing
    /\ cache = << >>
    /\ cache_dirty = FALSE
    /\ cache_new_entries = 0
    /\ last_cache_save = 0
    /\ cache_file = [state |-> "absent", data |-> << >>]
    /\ clock = 0
    /\ ticks_left = 0
    /\ api_mode = "up"
    /\ disk = "ok"
    /\ inserted_at = << >>
    /\ lookup_log = << >>
    /\ max_hit_age = 0
    /\ th = [t \in Threads |-> ThreadAtRest]
    /\ handler = "none"
    /\ urls = << >>
    /\ semaphore = ParseSlots
    /\ task_pc = << >>
    /\ parse_calls = << >>
    /\ results = << >>
    /\ batch_pc = "idle"
    /\ max_in_flight = 0
    /\ proc = "running"
    /\ ti_pc = "idle"
    /\ userinfo = << >>
    /\ ti_i = 1
    /\ traffic_info = << >>
    /\ ti_raised = None
    /\ an_pc = "idle"
    /\ an_headers = Nothing
    /\ an_nodes = << >>
    /\ an_url = [netloc |-> << >>]
    /\ an_k = 1
    /\ common_patterns = << >>
    /\ airport_name = << >>

\* One parse at a time: thread t1 runs _analyze_nodes on a node list, the
\* service has loaded a cache file of `k` entries (none when k = 0).  Long
\* node lists run in a quiet environment (the API answers the same way to
\* every request, the clock stands still and the disk works), short ones in
\* every environment.
ApiModes == {"up", "down", "fail", "flaky"}
LoadedSizes == {0, 1, MAX_GEO_QUERIES, 500}
GeoInit ==
    /\ \E k \in LoadedSizes, n \in GeoSizes, pat \in NodePatterns :
        /\ api_mode \in ApiModes
        /\ ticks_left \in {0, MaxTicks}
        /\ disk \in {"ok", "flaky"}
        /\ n > SmallGeo =>
              k # 500 /\ api_mode # "flaky" /\ ticks_left = 0 /\ disk = "ok"
        /\ k = 500 => api_mode \in {"up", "down"} /\ disk = "ok"
        /\ cache = LoadedCache(k)
        /\ inserted_at = [e \in DOMAIN LoadedCache(k) |-> 0]
        /\ cache_file = IF k = 0 THEN [state |-> "absent", data |-> << >>]
                        ELSE [state |-> "ok", data |-> LoadedCache(k)]
        /\ th = [t \in Threads |->
                   IF t = "t1" THEN ThreadStart(NodeListOf(n, pat)) ELSE ThreadAtRest]
    /\ cache_dirty = FALSE
    /\ cache_new_entries = 0
    /\ last_cache_save = 0
    /\ clock = 0
    /\ lookup_log = << >>
    /\ max_hit_age = 0
    /\ rt_pc = "idle"
    /\ wrapped = "_fetch"
    /\ max_retries = 3
    /\ initial_delay = 10
    /\ backoff_factor = 2
    /\ attempt = 0
    /\ delay = 10
    /\ last_exception = None
    /\ raised = None
    /\ call_trace = << >>
    /\ sleeps = << >>
    /\ safe_result = "pending"
    /\ user_data = << >>
    /\ im_store = << >>
    /\ im_log = << >>
    /\ im_left = 0
    /\ im_clock = 0
    /\ ck_pc = "idle"
    /\ ck_store = << >>
    /\ ck_before = << >>
    /\ ck_tag = Nothing
    /\ ck_subs = {}
    /\ ck_task = << >>
    /\ ck_sem = 0
    /\ ck_results = << >>
    /\ ck_report = Nothing
    /\ ck_clock = 0
    /\ url_cache = << >>
    /\ cb_clock = 0
    /\ cb_ticks = 0
    /\ cb_ops_left = 0
    /\ last_cb = [kind |-> "none"]
    /\ pending_tag_url = Nothing
    /\ cls_instance = Nothing
    /\ objs = << >>
    /\ ctor = [t \in Threads |-> [pc |-> "idle", self |-> 0, left |-> 0]]
    /\ init_runs = 0
    /\ hooks = 0
    /\ returned = {}
    /\ sg_file = {}
    /\ fh_pc = "idle"
    /\ fh_file = [file_type |-> "none", content |-> EmptyPayload]
    /\ fh_nodes = << >>
    /\ fh_i = 1
    /\ analyzed = Nothing
    /\ st_pc = "idle"
    /\ subscriptions = << >>
    /\ files = [f \in {"data", "tmp", "export"} |-> AbsentFile]
    /\ batch = FALSE
    /\ batch_writes = 0
    /\ st_clock = 0
    /\ ops_left = 0
    /\ faults_left = 0
    /\ last_op = [op |-> "none"]
    /\ prev_data = AbsentFile
    /\ save_status = "none"
    /\ exported = Nothing
    /\ pn_pc = "idle"
    /\ content = EmptyPayload
    /\ nodes = << >>
    /\ pn_i = 1
    /\ handler = "none"
    /\ urls = << >>
    /\ semaphore = ParseSlots
    /\ task_pc = << >>
    /\ parse_calls = << >>
    /\ results = << >>
    /\ batch_pc = "idle"
    /\ max_in_flight = 0
    /\ proc = "running"
    /\ ti_pc = "idle"
    /\ userinfo = << >>
    /\ ti_i = 1
    /\ traffic_info = << >>
    /\ ti_raised = None
    /\ an_pc = "idle"
    /\ an_headers = Nothing
    /\ an_nodes = << >>
    /\ an_url = [netloc |-> << >>]
    /\ an_k = 1
    /\ common_patterns = << >>
    /\ airport_name = << >>

\* Concurrent parses: every thread runs _analyze_nodes on a short node list.
MTNodeLists == {NodeListOf(n, "distinct") : n \in 1..SmallGeo}
               \cup {NodeListOf(SmallGeo, "same")}
GeoMTInit ==
    /\ api_mode \in {"up", "flaky"}
    /\ ticks_left \in {0, 1}
    /\ disk = "ok"
    /\ cache = << >>
    /\ inserted_at = << >>
    /\ cache_file = [state |-> "absent", data |-> << >>]
    /\ th \in [Threads -> {ThreadStart(ns) : ns \in MTNodeLists}]
    /\ cache_dirty = FALSE
    /\ cache_new_entries = 0
    /\ last_cache_save = 0
    /\ clock = 0
    /\ lookup_log = << >>
    /\ max_hit_age = 0
    /\ rt_pc = "idle"
    /\ wrapped = "_fetch"
    /\ max_retries = 3
    /\ initial_delay = 10
    /\ backoff_factor = 2
    /\ attempt = 0
    /\ delay = 10
    /\ last_exception = None
    /\ raised = None
    /\ call_trace = << >>
    /\ sleeps = << >>
    /\ safe_result = "pending"
    /\ user_data = << >>
    /\ im_store = << >>
    /\ im_log = << >>
    /\ im_left = 0
    /\ im_clock = 0
    /\ ck_pc = "idle"
    /\ ck_store = << >>
    /\ ck_before = << >>
    /\ ck_tag = Nothing
    /\ ck_subs = {}
    /\ ck_task = << >>
    /\ ck_sem = 0
    /\ ck_results = << >>
    /\ ck_report = Nothing
    /\ ck_clock = 0
    /\ url_cache = << >>
    /\ cb_clock = 0
    /\ cb_ticks = 0
    /\ cb_ops_left = 0
    /\ last_cb = [kind |-> "none"]
    /\ pending_tag_url = Nothing
    /\ cls_instance = Nothing
    /\ objs = << >>
    /\ ctor = [t \in Threads |-> [pc |-> "idle", self |-> 0, left |-> 0]]
    /\ init_runs = 0
    /\ hooks = 0
    /\ returned = {}
    /\ sg_file = {}
    /\ fh_pc = "idle"
    /\ fh_file = [file_type |-> "none", content |-> EmptyPayload]
    /\ fh_nodes = << >>
    /\ fh_i = 1
    /\ analyzed = Nothing
    /\ st_pc = "idle"
    /\ subscriptions = << >>
    /\ files = [f \in {"data", "tmp", "export"} |-> AbsentFile]
    /\ batch = FALSE
    /\ batch_writes = 0
    /\ st_clock = 0
    /\ ops_left = 0
    /\ faults_left = 0
    /\ last_op = [op |-> "none"]
    /\ prev_data = AbsentFile
    /\ save_status = "none"
    /\ exported = Nothing
    /\ pn_pc = "idle"
    /\ content = EmptyPayload
    /\ nodes = << >>
    /\ pn_i = 1
    /\ handler = "none"
    /\ urls = << >>
    /\ semaphore = ParseSlots
    /\ task_pc = << >>
    /\ parse_calls = << >>
    /\ results = << >>
    /\ batch_pc = "idle"
    /\ max_in_flight = 0
    /\ proc = "running"
    /\ ti_pc = "idle"
    /\ userinfo = << >>
    /\ ti_i = 1
    /\ traffic_info = << >>
    /\ ti_raised = None
    /\ an_pc = "idle"
    /\ an_headers = Nothing
    /\ an_nodes = << >>
    /\ an_url = [netloc |-> << >>]
    /\ an_k = 1
    /\ common_patterns = << >>
    /\ airport_name = << >>

\* A batch: the handler has created the semaphore and the tasks and awaits
\* gather.  check_command takes its URLs from the store and handle_document
\* from extract_subscription_urls, handle_subscription takes the lines of
\* the message as they are.
BotInit ==
    /\ handler \in Handlers
    /\ \E n \in 1..MaxSubs : \E pat \in UrlPatterns :
          /\ pat # "urls" => handler = "handle_subscription"
          /\ urls = BatchOf(n, pat)
    /\ semaphore = ParseSlots
    /\ task_pc = [s \in DOMAIN urls |->
                    IF handler = "handle_subscription" THEN "start" ELSE "acquire"]
    /\ parse_calls = [s \in DOMAIN urls |-> 0]
    /\ results = [s \in DOMAIN urls |-> "pending"]
    /\ batch_pc = "gather"
    /\ max_in_flight = 0
    /\ proc = "running"
    /\ ti_pc = "idle"
    /\ userinfo = << >>
    /\ ti_i = 1
    /\ traffic_info = << >>
    /\ ti_raised = None
    /\ an_pc = "idle"
    /\ an_headers = Nothing
    /\ an_nodes = << >>
    /\ an_url = [netloc |-> << >>]
    /\ an_k = 1
    /\ common_patterns = << >>
    /\ airport_name = << >>
    /\ rt_pc = "idle"
    /\ wrapped = "_fetch"
    /\ max_retries = 3
    /\ initial_delay = 10
    /\ backoff_factor = 2
    /\ attempt = 0
    /\ delay = 10
    /\ last_exception = None
    /\ raised = None
    /\ call_trace = << >>
    /\ sleeps = << >>
    /\ safe_result = "pending"
    /\ user_data = << >>
    /\ im_store = << >>
    /\ im_log = << >>
    /\ im_left = 0
    /\ im_clock = 0
    /\ ck_pc = "idle"
    /\ ck_store = << >>
    /\ ck_before = << >>
    /\ ck_tag = Nothing
    /\ ck_subs = {}
    /\ ck_task = << >>
    /\ ck_sem = 0
    /\ ck_results = << >>
    /\ ck_report = Nothing
    /\ ck_clock = 0
    /\ url_cache = << >>
    /\ cb_clock = 0
    /\ cb_ticks = 0
    /\ cb_ops_left = 0
    /\ last_cb = [kind |-> "none"]
    /\ pending_tag_url = Nothing
    /\ cls_instance = Nothing
    /\ objs = << >>
    /\ ctor = [t \in Threads |-> [pc |-> "idle", self |-> 0, left |-> 0]]
    /\ init_runs = 0
    /\ hooks = 0
    /\ returned = {}
    /\ sg_file = {}
    /\ fh_pc = "idle"
    /\ fh_file = [file_type |-> "none", content |-> EmptyPayload]
    /\ fh_nodes = << >>
    /\ fh_i = 1
    /\ analyzed = Nothing
    /\ st_pc = "idle"
    /\ subscriptions = << >>
    /\ files = [f \in {"data", "tmp", "export"} |-> AbsentFile]
    /\ batch = FALSE
    /\ batch_writes = 0
    /\ st_clock = 0
    /\ ops_left = 0
    /\ faults_left = 0
    /\ last_op = [op |-> "none"]
    /\ prev_data = AbsentFile
    /\ save_status = "none"
    /\ exported = Nothing
    /\ pn_pc = "idle"
    /\ content = EmptyPayload
    /\ nodes = << >>
    /\ pn_i = 1
    /\ cache = << >>
    /\ cache_dirty = FALSE
    /\ cache_new_entries = 0
    /\ last_cache_save = 0
    /\ cache_file = [state |-> "absent", data |-> << >>]
    /\ clock = 0
    /\ ticks_left = 0
    /\ api_mode = "up"
    /\ disk = "ok"
    /\ inserted_at = << >>
    /\ lookup_log = << >>
    /\ max_hit_age = 0
    /\ th = [t \in Threads |-> ThreadAtRest]

\* A call of _parse_traffic_info on a header map.
TrafficInit ==
    /\ ti_pc = "call"
    /\ \E up \in UploadValues, down \in DownloadValues, total \in TotalValues,
          expire \in ExpireValues, extra \in ExtraParts :
            userinfo = UserinfoOf(up, down, total, expire, extra)
    /\ ti_i = 1
    /\ traffic_info = << >>
    /\ ti_raised = None
    /\ an_pc = "idle"
    /\ an_headers = Nothing
    /\ an_nodes = << >>
    /\ an_url = [netloc |-> << >>]
    /\ an_k = 1
    /\ common_patterns = << >>
    /\ airport_name = << >>
    /\ rt_pc = "idle"
    /\ wrapped = "_fetch"
    /\ max_retries = 3
    /\ initial_delay = 10
    /\ backoff_factor = 2
    /\ attempt = 0
    /\ delay = 10
    /\ last_exception = None
    /\ raised = None
    /\ call_trace = << >>
    /\ sleeps = << >>
    /\ safe_result = "pending"
    /\ user_data = << >>
    /\ im_store = << >>
    /\ im_log = << >>
    /\ im_left = 0
    /\ im_clock = 0
    /\ ck_pc = "idle"
    /\ ck_store = << >>
    /\ ck_before = << >>
    /\ ck_tag = Nothing
    /\ ck_subs = {}
    /\ ck_task = << >>
    /\ ck_sem = 0
    /\ ck_results = << >>
    /\ ck_report = Nothing
    /\ ck_clock = 0
    /\ url_cache = << >>
    /\ cb_clock = 0
    /\ cb_ticks = 0
    /\ cb_ops_left = 0
    /\ last_cb = [kind |-> "none"]
    /\ pending_tag_url = Nothing
    /\ cls_instance = Nothing
    /\ objs = << >>
    /\ ctor = [t \in Threads |-> [pc |-> "idle", self |-> 0, left |-> 0]]
    /\ init_runs = 0
    /\ hooks = 0
    /\ returned = {}
    /\ sg_file = {}
    /\ fh_pc = "idle"
    /\ fh_file = [file_type |-> "none", content |-> EmptyPayload]
    /\ fh_nodes = << >>
    /\ fh_i = 1
    /\ analyzed = Nothing
    /\ st_pc = "idle"
    /\ subscriptions = << >>
    /\ files = [f \in {"data", "tmp", "export"} |-> AbsentFile]
    /\ batch = FALSE
    /\ batch_writes = 0
    /\ st_clock = 0
    /\ ops_left = 0
    /\ faults_left = 0
    /\ last_op = [op |-> "none"]
    /\ prev_data = AbsentFile
    /\ save_status = "none"
    /\ exported = Nothing
    /\ pn_pc = "idle"
    /\ content = EmptyPayload
    /\ nodes = << >>
    /\ pn_i = 1
    /\ cache = << >>
    /\ cache_dirty = FALSE
    /\ cache_new_entries = 0
    /\ last_cache_save = 0
    /\ cache_file = [state |-> "absent", data |-> << >>]
    /\ clock = 0
    /\ ticks_left = 0
    /\ api_mode = "up"
    /\ disk = "ok"
    /\ inserted_at = << >>
    /\ lookup_log = << >>
    /\ max_hit_age = 0
    /\ th = [t \in Threads |-> ThreadAtRest]
    /\ handler = "none"
    /\ urls = << >>
    /\ semaphore = ParseSlots
    /\ task_pc = << >>
    /\ parse_calls = << >>
    /\ results = << >>
    /\ batch_pc = "idle"
    /\ max_in_flight = 0
    /\ proc = "running"

(***************************************************************************)
(* parser.py: SubscriptionParser._extract_airport_name                     *)
(***************************************************************************)

\* node lists handed to _extract_airport_name have 0..MaxNames nodes
MaxNames == 3

\* A text is the sequence of its pieces; a piece is a run of characters the
\* function never cuts: a separator ("-" or "|"), a blank (" "), a double
\* quote ("q"), an extension (".yaml"), a subdomain ("www.") or a word.

\* the literal of the two `return` statements that name nothing
UnknownAirport == <<"unknown airport">>

\* str.strip(c): the pieces c at both ends are removed
RECURSIVE StripLeft(_, _)
StripLeft(t, c) == IF t # << >> /\ t[1] = c THEN StripLeft(Tail(t), c) ELSE t
RECURSIVE StripRight(_, _)
StripRight(t, c) ==
    IF t # << >> /\ t[Len(t)] = c THEN StripRight(SubSeq(t, 1, Len(t) - 1), c) ELSE t
StripChars(t, c) == StripRight(StripLeft(t, c), c)

\* unquote() of a text
UnquoteText(t) == [i \in 1..Len(t) |-> Unquote(t[i])]

\* The Content-Disposition header is a record
\*   [star:  the value of filename*= up to ';', if the header has one:
\*             [charset, name] for  charset''name ,
\*    plain: the value of filename= up to ';', if the header has one]
Cd(star, plain) == [star |-> star, plain |-> plain]

\* `filename` after the if / elif on "filename*=" and "filename="; Nothing is
\* Python's None
HeaderFilename(headers) ==
    IF headers = Nothing THEN Nothing
    ELSE LET cd == headers[1] IN
         IF cd.star # Nothing
           THEN IF Lower(cd.star[1].charset) = "utf-8"
                  THEN Some(UnquoteText(cd.star[1].name))
                  ELSE Nothing
         ELSE IF cd.plain # Nothing
           THEN Some(StripChars(cd.plain[1], "q"))
           ELSE Nothing

\* re.sub(r'\.(yaml|yml|txt|conf)$', '', filename, flags=re.IGNORECASE)
Extensions == {".yaml", ".yml", ".txt", ".conf"}
StripExtension(filename) ==
    IF filename # << >> /\ Lower(filename[Len(filename)]) \in Extensions
      THEN SubSeq(filename, 1, Len(filename) - 1)
      ELSE filename

\* name.split(sep)[0]
BeforeFirst(name, sep) ==
    LET first == CHOOSE i \in 1..Len(name) :
                    name[i] = sep /\ \A j \in 1..(i - 1) : name[j] # sep
    IN  SubSeq(name, 1, first - 1)

\* the prefix one name adds to common_patterns, if it adds one
PrefixOf(name) ==
    IF \E i \in 1..Len(name) : name[i] = "-"
      THEN Some(StripChars(BeforeFirst(name, "-"), " "))
    ELSE IF \E i \in 1..Len(name) : name[i] = "|"
      THEN Some(StripChars(BeforeFirst(name, "|"), " "))
      ELSE Nothing

\* Counter(patterns).most_common(1)[0][0]: the greatest count, and among equal
\* counts the pattern seen first
MostCommon(patterns) ==
    LET Count(i) == Cardinality({j \in 1..Len(patterns) : patterns[j] = patterns[i]})
        best == CHOOSE i \in 1..Len(patterns) :
                    /\ \A j \in 1..Len(patterns) : Count(j) <= Count(i)
                    /\ \A j \in 1..(i - 1) : Count(j) < Count(i)
    IN  patterns[best]

\* urlparse(url).netloc without one leading www. / api. / sub.
Subdomains == {"www.", "api.", "sub."}
Domain(url) ==
    IF url.netloc # << >> /\ url.netloc[1] \in Subdomains
      THEN Tail(url.netloc)
      ELSE url.netloc

\* method 1 (the header) and `if not nodes`
AirportHeader ==
    /\ an_pc = "call"
    /\ LET filename == HeaderFilename(an_headers) IN
        IF filename # Nothing /\ filename[1] # << >>
          THEN /\ airport_name' = StripChars(StripExtension(filename[1]), " ")
               /\ an_pc' = "done"
        ELSE IF an_nodes = << >>
          THEN /\ airport_name' = UnknownAirport
               /\ an_pc' = "done"
          ELSE /\ an_pc' = "names"
               /\ UNCHANGED airport_name
    /\ UNCHANGED <<an_headers, an_nodes, an_url, an_k, common_patterns>>
    /\ UNCHANGED notAirport

\* one name of `for name in node_names`; node_names leaves out the nodes
\* whose name is empty
AirportPattern ==
    /\ an_pc = "names"
    /\ an_k <= Len(an_nodes)
    /\ LET name == an_nodes[an_k] IN
        common_patterns' =
            IF name # << >> /\ PrefixOf(name) # Nothing
              THEN Append(common_patterns, PrefixOf(name)[1])
              ELSE common_patterns
    /\ an_k' = an_k + 1
    /\ UNCHANGED <<an_pc, an_headers, an_nodes, an_url, airport_name>>
    /\ UNCHANGED notAirport

\* after the loop: the most common prefix, or else the domain of the URL
AirportReturn ==
    /\ an_pc = "names"
    /\ an_k > Len(an_nodes)
    /\ airport_name' = IF common_patterns # << >>
                         THEN MostCommon(common_patterns)
                         ELSE Domain(an_url)
    /\ an_pc' = "done"
    /\ UNCHANGED <<an_headers, an_nodes, an_url, an_k, common_patterns>>
    /\ UNCHANGED notAirport

AirportNext == AirportHeader \/ AirportPattern \/ AirportReturn

\* ---- the calls the model makes ----
\* parse() calls the function with the headers of the response, the nodes
\* _parse_nodes returned and the URL that was fetched (so the URL has a host)
HeaderValues ==
    { Nothing,
      Some(Cd(Nothing, Nothing)),
      Some(Cd(Nothing, Some(<<"q", "69yun", ".yaml", "q">>))),
      Some(Cd(Nothing, Some(<<"Air", " ", "One", ".YML">>))),
      Some(Cd(Nothing, Some(<<"notes", ".json">>))),
      Some(Cd(Nothing, Some(<<"q", "q">>))),
      Some(Cd(Some([charset |-> "UTF-8", name |-> <<"JP%2003", ".txt">>]), Nothing)),
      Some(Cd(Some([charset |-> "GBK", name |-> <<"x">>]),
              Some(<<"q", "69yun", ".yaml", "q">>))) }
AirportNodeNames ==
    { <<"AirA", " ", "-", " ", "HK01">>,
      <<"AirA", "-", "JP02">>,
      <<"AirB", "|", "US">>,
      <<"AirB", "|", "SG", "-", "1">>,
      <<"plain">>,
      << >> }
FetchedUrls ==
    { [netloc |-> <<"sub.", "example.com">>],
      [netloc |-> <<"www.", "api.", "air.net">>],
      [netloc |-> <<"example.org">>] }
AirportInit ==
    /\ an_pc = "call"
    /\ an_headers \in HeaderValues
    /\ an_nodes \in UNION {[1..n -> AirportNodeNames] : n \in 0..MaxNames}
    /\ an_url \in FetchedUrls
    /\ an_k = 1
    /\ common_patterns = << >>
    /\ airport_name = << >>
    /\ ti_pc = "idle"
    /\ userinfo = << >>
    /\ ti_i = 1
    /\ traffic_info = << >>
    /\ ti_raised = None
    /\ rt_pc = "idle"
    /\ wrapped = "_fetch"
    /\ max_retries = 3
    /\ initial_delay = 10
    /\ backoff_factor = 2
    /\ attempt = 0
    /\ delay = 10
    /\ last_exception = None
    /\ raised = None
    /\ call_trace = << >>
    /\ sleeps = << >>
    /\ safe_result = "pending"
    /\ user_data = << >>
    /\ im_store = << >>
    /\ im_log = << >>
    /\ im_left = 0
    /\ im_clock = 0
    /\ ck_pc = "idle"
    /\ ck_store = << >>
    /\ ck_before = << >>
    /\ ck_tag = Nothing
    /\ ck_subs = {}
    /\ ck_task = << >>
    /\ ck_sem = 0
    /\ ck_results = << >>
    /\ ck_report = Nothing
    /\ ck_clock = 0
    /\ url_cache = << >>
    /\ cb_clock = 0
    /\ cb_ticks = 0
    /\ cb_ops_left = 0
    /\ last_cb = [kind |-> "none"]
    /\ pending_tag_url = Nothing
    /\ cls_instance = Nothing
    /\ objs = << >>
    /\ ctor = [t \in Threads |-> [pc |-> "idle", self |-> 0, left |-> 0]]
    /\ init_runs = 0
    /\ hooks = 0
    /\ returned = {}
    /\ sg_file = {}
    /\ fh_pc = "idle"
    /\ fh_file = [file_type |-> "none", content |-> EmptyPayload]
    /\ fh_nodes = << >>
    /\ fh_i = 1
    /\ analyzed = Nothing
    /\ st_pc = "idle"
    /\ subscriptions = << >>
    /\ files = [f \in {"data", "tmp", "export"} |-> AbsentFile]
    /\ batch = FALSE
    /\ batch_writes = 0
    /\ st_clock = 0
    /\ ops_left = 0
    /\ faults_left = 0
    /\ last_op = [op |-> "none"]
    /\ prev_data = AbsentFile
    /\ save_status = "none"
    /\ exported = Nothing
    /\ pn_pc = "idle"
    /\ content = EmptyPayload
    /\ nodes = << >>
    /\ pn_i = 1
    /\ cache = << >>
    /\ cache_dirty = FALSE
    /\ cache_new_entries = 0
    /\ last_cache_save = 0
    /\ cache_file = [state |-> "absent", data |-> << >>]
    /\ clock = 0
    /\ ticks_left = 0
    /\ api_mode = "up"
    /\ disk = "ok"
    /\ inserted_at = << >>
    /\ lookup_log = << >>
    /\ max_hit_age = 0
    /\ th = [t \in Threads |-> ThreadAtRest]
    /\ handler = "none"
    /\ urls = << >>
    /\ semaphore = ParseSlots
    /\ task_pc = << >>
    /\ parse_calls = << >>
    /\ results = << >>
    /\ batch_pc = "idle"
    /\ max_in_flight = 0
    /\ proc = "running"

(***************************************************************************)
(* storage_enhanced.py: SubscriptionStorage                                *)
(***************************************************************************)

\* a run of the store makes at most MaxOps calls and meets at most
\* MaxFaults I/O errors
MaxOps == 3
MaxFaults == 1

StoreUrls == {"u1", "u2"}
StoreTags == {"main"}

\* the defaults of info.get(...) in add_or_update
UnknownSubscription == "unknown subscription"

\* dict.get(key, default)
Get(d, key, default) == IF key \in DOMAIN d THEN d[key] ELSE default

\* del d[key]
DictDel(d, key) == [k \in DOMAIN d \ {key} |-> d[k]]

\* A JSON document that holds an object is the set of its members
\* <<key, value>>; json.dump writes the members of a dict, json.load builds the
\* dict from the members it reads.  The subscriptions are a dict of dicts.
JsonDumpObject(d) == {<<k, d[k]>> : k \in DOMAIN d}
JsonLoadObject(doc) ==
    [k \in {member[1] : member \in doc} |->
        (CHOOSE member \in doc : member[1] = k)[2]]
JsonDump(subs) == JsonDumpObject([u \in DOMAIN subs |-> JsonDumpObject(subs[u])])
JsonLoad(doc) ==
    LET outer == JsonLoadObject(doc)
    IN  [u \in DOMAIN outer |-> JsonLoadObject(outer[u])]

\* temp_file = self.data_file + '.tmp'
TempFileMutant(data_file) == data_file
TempFile(data_file) == "tmp"

\* os.replace(src, dst)
Replace(fs, src, dst) ==
    [f \in DOMAIN fs |-> IF f = dst THEN fs[src]
                         ELSE IF f = src THEN AbsentFile
                         ELSE fs[f]]

\* the tags add_or_update keeps of the entry it replaces
KeptTagsMutant(old) == << >>
KeptTags(old) == Get(old, "tags", << >>)

\* `data` of add_or_update as it is stored
EntryOf(subs, url, info, now) ==
    [name              |-> Get(info, "name", UnknownSubscription),
     url               |-> url,
     updated_at        |-> now,
     expire_time       |-> Get(info, "expire_time", None),
     node_count        |-> Get(info, "node_count", 0),
     total             |-> Get(info, "total", 0),
     used              |-> Get(info, "used", 0),
     remaining         |-> Get(info, "remaining", 0),
     last_check_status |-> "success",
     tags              |-> IF url \notin DOMAIN subs THEN << >> ELSE KeptTags(subs[url]),
     added_at          |-> IF url \notin DOMAIN subs THEN now
                           ELSE Get(subs[url], "added_at", now)]

\* import_from_file: `if not merge: self.subscriptions = {}`
ImportBaseMutant(subs, merge) == subs
ImportBase(subs, merge) == IF merge THEN subs ELSE << >>

\* `for url, data in imported_subs.items(): self.subscriptions[url] = data`
Overwrite(subs, imported) ==
    [u \in DOMAIN subs \cup DOMAIN imported |->
        IF u \in DOMAIN imported THEN imported[u] ELSE subs[u]]

\* export_data of export_to_file
ExportData(subs, now) ==
    [version |-> "1.0", exported_at |-> now, count |-> Cardinality(DOMAIN subs),
     subscriptions |-> JsonDump(subs)]

InSave == st_pc \in {"save_open", "save_dump", "save_replace", "save_log"}

\* what every call of a method of the store does to the history variables
\* and how it enters _save_data (or returns without saving)
Called(op, save) ==
    /\ ops_left' = ops_left - 1
    /\ last_op' = op
    /\ IF save
         THEN /\ st_pc' = "save_open"
              /\ prev_data' = files["data"]
              /\ save_status' = "running"
         ELSE UNCHANGED <<st_pc, prev_data, save_status>>

\* add_or_update(url, info)
AddOrUpdate(url, info) ==
    /\ st_pc = "ready"
    /\ ops_left > 0
    /\ st_clock' = st_clock + 1
    /\ subscriptions' = DictSet(subscriptions, url,
                                EntryOf(subscriptions, url, info, st_clock'))
    /\ Called([op |-> "add_or_update", url |-> url, info |-> info, now |-> st_clock',
               before |-> subscriptions, ret |-> None], TRUE)
    /\ UNCHANGED <<files, batch, batch_writes, faults_left, exported>>
    /\ UNCHANGED notStore

\* add_tag(url, tag)
AddTag(url, tag) ==
    /\ st_pc = "ready"
    /\ ops_left > 0
    /\ LET known == url \in DOMAIN subscriptions
           tags == IF known THEN Get(subscriptions[url], "tags", << >>) ELSE << >>
           added == known /\ \A i \in 1..Len(tags) : tags[i] # tag
       IN  /\ subscriptions' =
                 IF added
                   THEN DictSet(subscriptions, url,
                                DictSet(subscriptions[url], "tags", Append(tags, tag)))
                   ELSE subscriptions
           /\ Called([op |-> "add_tag", url |-> url, before |-> subscriptions,
                      ret |-> added], added)
    /\ UNCHANGED <<files, batch, batch_writes, st_clock, faults_left, exported>>
    /\ UNCHANGED notStore

\* remove(url)
Remove(url) ==
    /\ st_pc = "ready"
    /\ ops_left > 0
    /\ LET known == url \in DOMAIN subscriptions IN
           /\ subscriptions' = IF known THEN DictDel(subscriptions, url)
                               ELSE subscriptions
           /\ Called([op |-> "remove", url |-> url, before |-> subscriptions,
                      ret |-> known], known)
    /\ UNCHANGED <<files, batch, batch_writes, st_clock, faults_left, exported>>
    /\ UNCHANGED notStore

\* export_to_file(filepath): the file is written in place; an I/O error is
\* caught and False returned
ExportToFile ==
    /\ st_pc = "ready"
    /\ ops_left > 0
    /\ st_clock' = st_clock + 1
    /\ \E fault \in {FALSE} \cup {f \in {TRUE} : faults_left > 0} :
        /\ faults_left' = IF fault THEN faults_left - 1 ELSE faults_left
        /\ files' = [files EXCEPT !["export"] =
                        IF fault THEN TruncatedFile
                        ELSE WrittenFile(JsonDumpObject(ExportData(subscriptions,
                                                                   st_clock')))]
        /\ exported' = IF fault THEN Nothing ELSE Some(subscriptions)
        /\ Called([op |-> "export_to_file", before |-> subscriptions,
                   ret |-> ~fault], FALSE)
    /\ UNCHANGED <<subscriptions, batch, batch_writes>>
    /\ UNCHANGED notStore

\* a JSON array as a document: one member marked "[]" (no object has that key)
JsonArray(items) == {<<"[]", items>>}
\* the value has .items(): it is an object
IsJsonObject(value) == \A member \in value : member[1] # "[]"

\* import_from_file(filepath, merge): a file that cannot be read or parsed
\* raises inside the try and a document without 'subscriptions' returns at
\* once: 0 is returned and nothing is changed.  Otherwise merge=False empties
\* self.subscriptions, then imported_subs.items() is iterated: on a value
\* that is not an object it raises, 0 is returned and nothing is saved.
ImportFromFile(merge) ==
    /\ st_pc = "ready"
    /\ ops_left > 0
    /\ LET readable == files["export"].state = "complete"
           import_data == JsonLoadObject(files["export"].doc)
           valid == readable /\ "subscriptions" \in DOMAIN import_data
           mapping == valid /\ IsJsonObject(import_data["subscriptions"])
           imported_subs == JsonLoad(import_data["subscriptions"])
       IN  /\ subscriptions' =
                 IF mapping THEN Overwrite(ImportBase(subscriptions, merge), imported_subs)
                 ELSE IF valid THEN ImportBase(subscriptions, merge)
                 ELSE subscriptions
           /\ Called([op |-> "import_from_file", merge |-> merge,
                      before |-> subscriptions, file |-> files["export"],
                      data_before |-> files["data"],
                      ret |-> IF mapping THEN Cardinality(DOMAIN imported_subs) ELSE 0],
                     mapping)
    /\ UNCHANGED <<files, batch, batch_writes, st_clock, faults_left, exported>>
    /\ UNCHANGED notStore

\* begin_batch(): src/ holds its callers only; from the stated semantics it
\* opens a batch
BeginBatch ==
    /\ st_pc = "ready"
    /\ ops_left > 0
    /\ ~batch
    /\ batch' = TRUE
    /\ batch_writes' = 0
    /\ Called([op |-> "begin_batch", before |-> subscriptions, ret |-> None], FALSE)
    /\ UNCHANGED <<subscriptions, files, st_clock, faults_left, exported>>
    /\ UNCHANGED notStore

\* end_batch(save=True): src/ holds its callers only; from the stated
\* semantics it closes the batch and writes the data file
StoreEndBatch ==
    /\ st_pc = "ready"
    /\ ops_left > 0
    /\ batch
    /\ batch' = FALSE
    /\ Called([op |-> "end_batch", before |-> subscriptions, ret |-> None], TRUE)
    /\ UNCHANGED <<subscriptions, files, batch_writes, st_clock, faults_left, exported>>
    /\ UNCHANGED notStore

\* an I/O error inside the try of _save_data: logged, the method returns
StoreSaveFails ==
    /\ st_pc \in {"save_open", "save_dump", "save_replace"}
    /\ faults_left > 0
    /\ faults_left' = faults_left - 1
    /\ st_pc' = "ready"
    /\ save_status' = "failed"
    /\ UNCHANGED <<subscriptions, files, batch, batch_writes, st_clock, ops_left,
                   last_op, prev_data, exported>>
    /\ UNCHANGED notStore

\* open(temp_file, 'w')
StoreSaveOpen ==
    /\ st_pc = "save_open"
    /\ files' = [files EXCEPT ![TempFile("data")] = TruncatedFile]
    /\ st_pc' = "save_dump"
    /\ UNCHANGED <<subscriptions, batch, batch_writes, st_clock, ops_left, faults_left,
                   last_op, prev_data, save_status, exported>>
    /\ UNCHANGED notStore

\* json.dump(self.subscriptions, f, ...) and the end of the `with`
StoreSaveDump ==
    /\ st_pc = "save_dump"
    /\ files' = [files EXCEPT ![TempFile("data")] = WrittenFile(JsonDump(subscriptions))]
    /\ st_pc' = "save_replace"
    /\ UNCHANGED <<subscriptions, batch, batch_writes, st_clock, ops_left, faults_left,
                   last_op, prev_data, save_status, exported>>
    /\ UNCHANGED notStore

\* os.replace(temp_file, self.data_file)
StoreSaveReplace ==
    /\ st_pc = "save_replace"
    /\ files' = Replace(files, TempFile("data"), "data")
    /\ batch_writes' = IF batch THEN batch_writes + 1 ELSE batch_writes
    /\ st_pc' = "save_log"
    /\ UNCHANGED <<subscriptions, batch, st_clock, ops_left, faults_left, last_op,
                   prev_data, save_status, exported>>
    /\ UNCHANGED notStore

\* logger.debug(...) and the return of _save_data
StoreSaveReturn ==
    /\ st_pc = "save_log"
    /\ save_status' = "saved"
    /\ st_pc' = "ready"
    /\ UNCHANGED <<subscriptions, files, batch, batch_writes, st_clock, ops_left,
                   faults_left, last_op, prev_data, exported>>
    /\ UNCHANGED notStore

\* the process is killed inside _save_data
StoreKill ==
    /\ InSave
    /\ st_pc' = "killed"
    /\ UNCHANGED <<subscriptions, files, batch, batch_writes, st_clock, ops_left,
                   faults_left, last_op, prev_data, save_status, exported>>
    /\ UNCHANGED notStore

\* ---- the calls the model makes ----
StoreInfos ==
    { [name |-> "Air1", node_count |-> 5],
      [name |-> "Air2", node_count |-> 10, expire_time |-> "2026-12-31 00:00:00",
       total |-> 100, used |-> 40, remaining |-> 60] }

StoreNext ==
    \/ \E url \in StoreUrls, info \in StoreInfos : AddOrUpdate(url, info)
    \/ \E url \in StoreUrls, tag \in StoreTags : AddTag(url, tag)
    \/ \E url \in StoreUrls : Remove(url)
    \/ ExportToFile
    \/ \E merge \in BOOLEAN : ImportFromFile(merge)
    \/ BeginBatch
    \/ StoreEndBatch
    \/ StoreSaveFails
    \/ StoreSaveOpen
    \/ StoreSaveDump
    \/ StoreSaveReplace
    \/ StoreSaveReturn
    \/ StoreKill

\* what _load_data gives at construction: no data file; a data file written
\* by storage.py (its entries have no tags); a data file of this class
LegacyEntry ==
    [name |-> "Old", url |-> "u1", updated_at |-> 0, expire_time |-> None,
     node_count |-> 3, last_check_status |-> "success", added_at |-> 0]
TaggedEntry ==
    [name |-> "Air1", url |-> "u1", updated_at |-> 0, expire_time |-> None,
     node_count |-> 5, total |-> 0, used |-> 0, remaining |-> 0,
     last_check_status |-> "success", tags |-> <<"main">>, added_at |-> 0]
LoadedStores == { << >>, [u \in {"u1"} |-> LegacyEntry], [u \in {"u1"} |-> TaggedEntry] }

\* the files a user may hand to import_from_file before any export: none, a
\* file cut short, a document without 'subscriptions', a document that is a
\* list, and one whose 'subscriptions' is a list
ImportFiles ==
    { AbsentFile, TruncatedFile,
      WrittenFile(JsonDumpObject([version |-> "1.0"])),
      WrittenFile(JsonArray(<<"u1">>)),
      WrittenFile(JsonDumpObject([version |-> "1.0", subscriptions |-> JsonArray(<<"u1">>)])) }

StoreInit ==
    /\ st_pc = "ready"
    /\ subscriptions \in LoadedStores
    /\ \E import_file \in ImportFiles :
          files = [f \in {"data", "tmp", "export"} |->
                     IF f = "data" /\ subscriptions # << >>
                       THEN WrittenFile(JsonDump(subscriptions))
                     ELSE IF f = "export" THEN import_file
                     ELSE AbsentFile]
    /\ batch = FALSE
    /\ batch_writes = 0
    /\ st_clock = 0
    /\ ops_left = MaxOps
    /\ faults_left \in 0..MaxFaults
    /\ last_op = [op |-> "none"]
    /\ prev_data = AbsentFile
    /\ save_status = "none"
    /\ exported = Nothing
    /\ an_pc = "idle"
    /\ an_headers = Nothing
    /\ an_nodes = << >>
    /\ an_url = [netloc |-> << >>]
    /\ an_k = 1
    /\ common_patterns = << >>
    /\ airport_name = << >>
    /\ ti_pc = "idle"
    /\ userinfo = << >>
    /\ ti_i = 1
    /\ traffic_info = << >>
    /\ ti_raised = None
    /\ rt_pc = "idle"
    /\ wrapped = "_fetch"
    /\ max_retries = 3
    /\ initial_delay = 10
    /\ backoff_factor = 2
    /\ attempt = 0
    /\ delay = 10
    /\ last_exception = None
    /\ raised = None
    /\ call_trace = << >>
    /\ sleeps = << >>
    /\ safe_result = "pending"
    /\ user_data = << >>
    /\ im_store = << >>
    /\ im_log = << >>
    /\ im_left = 0
    /\ im_clock = 0
    /\ ck_pc = "idle"
    /\ ck_store = << >>
    /\ ck_before = << >>
    /\ ck_tag = Nothing
    /\ ck_subs = {}
    /\ ck_task = << >>
    /\ ck_sem = 0
    /\ ck_results = << >>
    /\ ck_report = Nothing
    /\ ck_clock = 0
    /\ url_cache = << >>
    /\ cb_clock = 0
    /\ cb_ticks = 0
    /\ cb_ops_left = 0
    /\ last_cb = [kind |-> "none"]
    /\ pending_tag_url = Nothing
    /\ cls_instance = Nothing
    /\ objs = << >>
    /\ ctor = [t \in Threads |-> [pc |-> "idle", self |-> 0, left |-> 0]]
    /\ init_runs = 0
    /\ hooks = 0
    /\ returned = {}
    /\ sg_file = {}
    /\ fh_pc = "idle"
    /\ fh_file = [file_type |-> "none", content |-> EmptyPayload]
    /\ fh_nodes = << >>
    /\ fh_i = 1
    /\ analyzed = Nothing
    /\ pn_pc = "idle"
    /\ content = EmptyPayload
    /\ nodes = << >>
    /\ pn_i = 1
    /\ cache = << >>
    /\ cache_dirty = FALSE
    /\ cache_new_entries = 0
    /\ last_cache_save = 0
    /\ cache_file = [state |-> "absent", data |-> << >>]
    /\ clock = 0
    /\ ticks_left = 0
    /\ api_mode = "up"
    /\ disk = "ok"
    /\ inserted_at = << >>
    /\ lookup_log = << >>
    /\ max_hit_age = 0
    /\ th = [t \in Threads |-> ThreadAtRest]
    /\ handler = "none"
    /\ urls = << >>
    /\ semaphore = ParseSlots
    /\ task_pc = << >>
    /\ parse_calls = << >>
    /\ results = << >>
    /\ batch_pc = "idle"
    /\ max_in_flight = 0
    /\ proc = "running"

(***************************************************************************)
(* file_handler.py: FileHandler.parse_txt_file / parse_yaml_file, and the   *)
(* direct analysis of handle_document / handle_node_text (bot_async.py)    *)
(***************************************************************************)

\* FileHandler._extract_node_name: the text after '#', unquoted, or the
\* placeholder
FileExtractNodeName(line) ==
    IF line.frag # Nothing THEN Unquote(line.frag[1]) ELSE "unnamed-node"

\* the node parse_txt_file appends for a line, if the line starts with one
\* of `protocols`
FileNodeOf(line) ==
    LET hits == {k \in 1..Len(protocols) : StartsWith(line, protocols[k])} IN
    IF hits = {} THEN Nothing
    ELSE LET protocol == protocols[CHOOSE k \in hits : \A j \in hits : k <= j] IN
         Some([protocol |-> StripScheme(protocol),
               raw      |-> line,
               name     |-> FileExtractNodeName(line)])

\* handle_document / handle_node_text up to the loop of the parse function:
\* the file type chooses the function; parse_yaml_file returns [] when
\* yaml.safe_load raises and when there is no 'proxies'
FileParseStart ==
    /\ fh_pc = "call"
    /\ fh_i' = 1
    /\ fh_pc' = IF fh_file.file_type \in {"txt", "text"} THEN "lines"
                ELSE IF HasProxies(fh_file.content) THEN "proxies"
                ELSE "parsed"
    /\ UNCHANGED <<fh_file, fh_nodes, analyzed>>
    /\ UNCHANGED notFile

\* one iteration of `for line in text.split('\n')` of parse_txt_file, or its
\* `return nodes`
FileTxtLine ==
    /\ fh_pc = "lines"
    /\ LET lines == fh_file.content.lines IN
        IF fh_i > Len(lines)
          THEN /\ fh_pc' = "parsed"
               /\ UNCHANGED <<fh_nodes, fh_i>>
          ELSE /\ fh_nodes' = IF IsBlank(lines[fh_i]) THEN fh_nodes
                              ELSE fh_nodes \o FileNodeOf(lines[fh_i])
               /\ fh_i' = fh_i + 1
               /\ UNCHANGED fh_pc
    /\ UNCHANGED <<fh_file, analyzed>>
    /\ UNCHANGED notFile

\* one iteration of `for proxy in config['proxies']` of parse_yaml_file, or
\* its `return nodes`; an exception (a type that is not a str) returns []
FileYamlProxy ==
    /\ fh_pc = "proxies"
    /\ LET proxies == fh_file.content.proxies IN
        IF fh_i > Len(proxies)
          THEN /\ fh_pc' = "parsed"
               /\ UNCHANGED <<fh_nodes, fh_i>>
        ELSE IF ~proxies[fh_i].isdict
          THEN /\ fh_i' = fh_i + 1
               /\ UNCHANGED <<fh_nodes, fh_pc>>
        ELSE IF ProxyRaises(proxies[fh_i])
          THEN /\ fh_nodes' = << >>
               /\ fh_pc' = "parsed"
               /\ UNCHANGED fh_i
          ELSE /\ fh_nodes' = Append(fh_nodes, ProxyNode(proxies[fh_i]))
               /\ fh_i' = fh_i + 1
               /\ UNCHANGED fh_pc
    /\ UNCHANGED <<fh_file, analyzed>>
    /\ UNCHANGED notFile

\* `if not nodes: ... return`, else parser_instance._analyze_nodes(nodes)
FileAnalyze ==
    /\ fh_pc = "parsed"
    /\ IF fh_nodes = << >>
         THEN /\ fh_pc' = "rejected"
              /\ UNCHANGED analyzed
         ELSE /\ fh_pc' = "analyzed"
              /\ analyzed' = Some(Len(fh_nodes))
    /\ UNCHANGED <<fh_file, fh_nodes, fh_i>>
    /\ UNCHANGED notFile

FileNext == FileParseStart \/ FileTxtLine \/ FileYamlProxy \/ FileAnalyze

\* ---- the documents and texts the model is sent ----
\* a .txt document or a message of node lines, and a .yaml document
Documents ==
    {[file_type |-> t,
      content |-> [clash |-> FALSE, yaml |-> "error", proxies |-> << >>,
                   lines |-> LinesOf(n, pat)]] :
        t \in {"txt", "text"}, n \in PayloadSizes, pat \in LinePatterns}
    \cup
    {[file_type |-> "yaml",
      content |-> [clash |-> TRUE, yaml |-> "list", proxies |-> ProxiesOf(n, pat),
                   lines |-> << >>]] :
        n \in PayloadSizes, pat \in ProxyPatterns}
    \cup
    {[file_type |-> "yaml",
      content |-> [clash |-> TRUE, yaml |-> y, proxies |-> << >>, lines |-> << >>]] :
        y \in {"error", "noproxies"}}

FileInit ==
    /\ fh_pc = "call"
    /\ fh_file \in Documents
    /\ fh_nodes = << >>
    /\ fh_i = 1
    /\ analyzed = Nothing
    /\ an_pc = "idle"
    /\ an_headers = Nothing
    /\ an_nodes = << >>
    /\ an_url = [netloc |-> << >>]
    /\ an_k = 1
    /\ common_patterns = << >>
    /\ airport_name = << >>
    /\ ti_pc = "idle"
    /\ userinfo = << >>
    /\ ti_i = 1
    /\ traffic_info = << >>
    /\ ti_raised = None
    /\ rt_pc = "idle"
    /\ wrapped = "_fetch"
    /\ max_retries = 3
    /\ initial_delay = 10
    /\ backoff_factor = 2
    /\ attempt = 0
    /\ delay = 10
    /\ last_exception = None
    /\ raised = None
    /\ call_trace = << >>
    /\ sleeps = << >>
    /\ safe_result = "pending"
    /\ user_data = << >>
    /\ im_store = << >>
    /\ im_log = << >>
    /\ im_left = 0
    /\ im_clock = 0
    /\ ck_pc = "idle"
    /\ ck_store = << >>
    /\ ck_before = << >>
    /\ ck_tag = Nothing
    /\ ck_subs = {}
    /\ ck_task = << >>
    /\ ck_sem = 0
    /\ ck_results = << >>
    /\ ck_report = Nothing
    /\ ck_clock = 0
    /\ url_cache = << >>
    /\ cb_clock = 0
    /\ cb_ticks = 0
    /\ cb_ops_left = 0
    /\ last_cb = [kind |-> "none"]
    /\ pending_tag_url = Nothing
    /\ cls_instance = Nothing
    /\ objs = << >>
    /\ ctor = [t \in Threads |-> [pc |-> "idle", self |-> 0, left |-> 0]]
    /\ init_runs = 0
    /\ hooks = 0
    /\ returned = {}
    /\ sg_file = {}
    /\ pn_pc = "idle"
    /\ content = EmptyPayload
    /\ nodes = << >>
    /\ pn_i = 1
    /\ cache = << >>
    /\ cache_dirty = FALSE
    /\ cache_new_entries = 0
    /\ last_cache_save = 0
    /\ cache_file = [state |-> "absent", data |-> << >>]
    /\ clock = 0
    /\ ticks_left = 0
    /\ api_mode = "up"
    /\ disk = "ok"
    /\ inserted_at = << >>
    /\ lookup_log = << >>
    /\ max_hit_age = 0
    /\ th = [t \in Threads |-> ThreadAtRest]
    /\ handler = "none"
    /\ urls = << >>
    /\ semaphore = ParseSlots
    /\ task_pc = << >>
    /\ parse_calls = << >>
    /\ results = << >>
    /\ batch_pc = "idle"
    /\ max_in_flight = 0
    /\ proc = "running"
    /\ st_pc = "idle"
    /\ subscriptions = << >>
    /\ files = [f \in {"data", "tmp", "export"} |-> AbsentFile]
    /\ batch = FALSE
    /\ batch_writes = 0
    /\ st_clock = 0
    /\ ops_left = 0
    /\ faults_left = 0
    /\ last_op = [op |-> "none"]
    /\ prev_data = AbsentFile
    /\ save_status = "none"
    /\ exported = Nothing

(***************************************************************************)
(* geo_service.py: the construction of GeoLocationService.  Every parse    *)
(* calls GeoLocationService() in its executor thread (_analyze_nodes);     *)
(* __new__ and __init__ take no lock, so the threads interleave between    *)
(* any two of their statements.                                            *)
(***************************************************************************)

\* constructions per thread (one per parse)
MaxConstructions == 2

\* the object super().__new__(cls) allocates: no attribute is set yet
NewObject == [initialized |-> "unset", cache |-> {}, inserted |-> {}]

\* `hasattr(self, '_initialized') and self._initialized`
AlreadyInitialized(obj) == obj.initialized = "true"

\* _analyze_nodes: geo_service = GeoLocationService()
ConstructStart(t) ==
    /\ ctor[t].pc = "idle"
    /\ ctor[t].left > 0
    /\ ctor' = [ctor EXCEPT ![t].pc = "new_test"]
    /\ UNCHANGED <<cls_instance, objs, init_runs, hooks, returned, sg_file>>
    /\ UNCHANGED notSingleton

\* __new__: `if cls._instance is None`
NewTest(t) ==
    /\ ctor[t].pc = "new_test"
    /\ ctor' = [ctor EXCEPT ![t].pc = IF cls_instance = Nothing THEN "new_alloc"
                                       ELSE "new_return"]
    /\ UNCHANGED <<cls_instance, objs, init_runs, hooks, returned, sg_file>>
    /\ UNCHANGED notSingleton

\* __new__: cls._instance = super(GeoLocationService, cls).__new__(cls)
NewAllocate(t) ==
    /\ ctor[t].pc = "new_alloc"
    /\ objs' = Append(objs, NewObject)
    /\ cls_instance' = Some(Len(objs) + 1)
    /\ ctor' = [ctor EXCEPT ![t].pc = "new_flag"]
    /\ UNCHANGED <<init_runs, hooks, returned, sg_file>>
    /\ UNCHANGED notSingleton

\* __new__: cls._instance._initialized = False
NewFlag(t) ==
    /\ ctor[t].pc = "new_flag"
    /\ objs' = [objs EXCEPT ![cls_instance[1]].initialized = "false"]
    /\ ctor' = [ctor EXCEPT ![t].pc = "new_return"]
    /\ UNCHANGED <<cls_instance, init_runs, hooks, returned, sg_file>>
    /\ UNCHANGED notSingleton

\* __new__: return cls._instance; __init__: the test of _initialized
NewReturn(t) ==
    /\ ctor[t].pc = "new_return"
    /\ ctor' = [ctor EXCEPT ![t].self = cls_instance[1], ![t].pc = "init_test"]
    /\ UNCHANGED <<cls_instance, objs, init_runs, hooks, returned, sg_file>>
    /\ UNCHANGED notSingleton

InitTest(t) ==
    /\ ctor[t].pc = "init_test"
    /\ ctor' = [ctor EXCEPT ![t].pc = IF AlreadyInitialized(objs[ctor[t].self])
                                         THEN "constructed" ELSE "init_cache"]
    /\ UNCHANGED <<cls_instance, objs, init_runs, hooks, returned, sg_file>>
    /\ UNCHANGED notSingleton

\* __init__ lines 33-47: the session, then self.cache = {}
InitCache(t) ==
    /\ ctor[t].pc = "init_cache"
    /\ objs' = [objs EXCEPT ![ctor[t].self].cache = {}]
    /\ init_runs' = init_runs + 1
    /\ ctor' = [ctor EXCEPT ![t].pc = "init_load"]
    /\ UNCHANGED <<cls_instance, hooks, returned, sg_file>>
    /\ UNCHANGED notSingleton

\* __init__ line 48, _load_cache: self.cache = json.load(f)
InitLoad(t) ==
    /\ ctor[t].pc = "init_load"
    /\ objs' = [objs EXCEPT ![ctor[t].self].cache = sg_file]
    /\ ctor' = [ctor EXCEPT ![t].pc = "init_hook"]
    /\ UNCHANGED <<cls_instance, init_runs, hooks, returned, sg_file>>
    /\ UNCHANGED notSingleton

\* __init__ line 51: atexit.register(...)
InitHook(t) ==
    /\ ctor[t].pc = "init_hook"
    /\ hooks' = hooks + 1
    /\ ctor' = [ctor EXCEPT ![t].pc = "init_flag"]
    /\ UNCHANGED <<cls_instance, objs, init_runs, returned, sg_file>>
    /\ UNCHANGED notSingleton

\* __init__ line 53: self._initialized = True
InitFlag(t) ==
    /\ ctor[t].pc = "init_flag"
    /\ objs' = [objs EXCEPT ![ctor[t].self].initialized = "true"]
    /\ ctor' = [ctor EXCEPT ![t].pc = "constructed"]
    /\ UNCHANGED <<cls_instance, init_runs, hooks, returned, sg_file>>
    /\ UNCHANGED notSingleton

\* the parse goes on with the object it got: a get_location that misses
\* inserts an entry (self.cache[ip] = location)
UseInstance(t) ==
    /\ ctor[t].pc = "constructed"
    /\ returned' = returned \cup {ctor[t].self}
    /\ objs' = [objs EXCEPT ![ctor[t].self].cache = @ \cup {<<t, ctor[t].left>>},
                            ![ctor[t].self].inserted = @ \cup {<<t, ctor[t].left>>}]
    /\ ctor' = [ctor EXCEPT ![t].pc = "idle", ![t].left = @ - 1]
    /\ UNCHANGED <<cls_instance, init_runs, hooks, sg_file>>
    /\ UNCHANGED notSingleton

SingletonNext ==
    \E t \in Threads :
        \/ ConstructStart(t) \/ NewTest(t) \/ NewAllocate(t) \/ NewFlag(t)
        \/ NewReturn(t) \/ InitTest(t) \/ InitCache(t) \/ InitLoad(t)
        \/ InitHook(t) \/ InitFlag(t) \/ UseInstance(t)

\* The process has just started: no instance exists, and each thread has
\* one or two parses to run.
SingletonInit ==
    /\ cls_instance = Nothing
    /\ objs = << >>
    /\ ctor \in [Threads -> {[pc |-> "idle", self |-> 0, left |-> n] :
                               n \in 1..MaxConstructions}]
    /\ init_runs = 0
    /\ hooks = 0
    /\ returned = {}
    /\ sg_file \in {{}, {<<"file", 0>>}}
    /\ an_pc = "idle"
    /\ an_headers = Nothing
    /\ an_nodes = << >>
    /\ an_url = [netloc |-> << >>]
    /\ an_k = 1
    /\ common_patterns = << >>
    /\ airport_name = << >>
    /\ ti_pc = "idle"
    /\ userinfo = << >>
    /\ ti_i = 1
    /\ traffic_info = << >>
    /\ ti_raised = None
    /\ rt_pc = "idle"
    /\ wrapped = "_fetch"
    /\ max_retries = 3
    /\ initial_delay = 10
    /\ backoff_factor = 2
    /\ attempt = 0
    /\ delay = 10
    /\ last_exception = None
    /\ raised = None
    /\ call_trace = << >>
    /\ sleeps = << >>
    /\ safe_result = "pending"
    /\ user_data = << >>
    /\ im_store = << >>
    /\ im_log = << >>
    /\ im_left = 0
    /\ im_clock = 0
    /\ ck_pc = "idle"
    /\ ck_store = << >>
    /\ ck_before = << >>
    /\ ck_tag = Nothing
    /\ ck_subs = {}
    /\ ck_task = << >>
    /\ ck_sem = 0
    /\ ck_results = << >>
    /\ ck_report = Nothing
    /\ ck_clock = 0
    /\ url_cache = << >>
    /\ cb_clock = 0
    /\ cb_ticks = 0
    /\ cb_ops_left = 0
    /\ last_cb = [kind |-> "none"]
    /\ pending_tag_url = Nothing
    /\ pn_pc = "idle"
    /\ content = EmptyPayload
    /\ nodes = << >>
    /\ pn_i = 1
    /\ cache = << >>
    /\ cache_dirty = FALSE
    /\ cache_new_entries = 0
    /\ last_cache_save = 0
    /\ cache_file = [state |-> "absent", data |-> << >>]
    /\ clock = 0
    /\ ticks_left = 0
    /\ api_mode = "up"
    /\ disk = "ok"
    /\ inserted_at = << >>
    /\ lookup_log = << >>
    /\ max_hit_age = 0
    /\ th = [t \in Threads |-> ThreadAtRest]
    /\ handler = "none"
    /\ urls = << >>
    /\ semaphore = ParseSlots
    /\ task_pc = << >>
    /\ parse_calls = << >>
    /\ results = << >>
    /\ batch_pc = "idle"
    /\ max_in_flight = 0
    /\ proc = "running"
    /\ st_pc = "idle"
    /\ subscriptions = << >>
    /\ files = [f \in {"data", "tmp", "export"} |-> AbsentFile]
    /\ batch = FALSE
    /\ batch_writes = 0
    /\ st_clock = 0
    /\ ops_left = 0
    /\ faults_left = 0
    /\ last_op = [op |-> "none"]
    /\ prev_data = AbsentFile
    /\ save_status = "none"
    /\ exported = Nothing
    /\ fh_pc = "idle"
    /\ fh_file = [file_type |-> "none", content |-> EmptyPayload]
    /\ fh_nodes = << >>
    /\ fh_i = 1
    /\ analyzed = Nothing

(***************************************************************************)
(* bot_async.py: url_cache, _cleanup_url_cache, get_short_callback_data    *)
(* and button_callback.  Updates are handled one at a time and neither     *)
(* function yields between the cleanup and the lookup.                     *)
(***************************************************************************)

URL_CACHE_MAX_SIZE == 500
URL_CACHE_TTL_SECONDS == 86400

\* calls and clock steps of one run
MaxCbOps == 2
MaxCbTicks == 1

\* hashlib.md5(url.encode('utf-8')).hexdigest()[:16]
HashKey(url) == <<"md5", url>>

\* `now - value.get('ts', 0) > URL_CACHE_TTL_SECONDS`
IsExpiredMutant(now, value) == FALSE
IsExpired(now, value) == now - value.ts > URL_CACHE_TTL_SECONDS

\* _cleanup_url_cache: the expired keys are popped, then popitem(last=False)
\* while the dict holds more than URL_CACHE_MAX_SIZE entries
CleanupUrlCache(c, now) ==
    LET Live(e) == ~IsExpired(now, e)
        live == SelectSeq(c, Live)
    IN  IF Len(live) > URL_CACHE_MAX_SIZE
          THEN SubSeq(live, Len(live) - URL_CACHE_MAX_SIZE + 1, Len(live))
          ELSE live

\* url_cache[hash_key] = {...}; url_cache.move_to_end(hash_key)
PutLast(c, key, url, now) ==
    LET Other(e) == e.key # key
    IN  Append(SelectSeq(c, Other), [key |-> key, url |-> url, ts |-> now])

\* get_short_callback_data(action, url): the dict it leaves
Registered(c, url, now) == PutLast(CleanupUrlCache(c, now), HashKey(url), url, now)

\* make_sub_keyboard(url): three calls of get_short_callback_data
SubKeyboard(c, url, now) == Registered(Registered(Registered(c, url, now), url, now), url, now)

\* url_cache.get(key)
CacheGet(c, key) ==
    LET hits == {k \in 1..Len(c) : c[k].key = key}
    IN  IF hits = {} THEN Nothing ELSE Some(c[CHOOSE k \in hits : TRUE])

\* what the dict holds for a key when a call starts
EntryState(c, key, now) ==
    LET hits == {k \in 1..Len(c) : c[k].key = key}
    IN  IF hits = {} THEN "absent"
        ELSE IF \E k \in hits : now - c[k].ts > 86400 THEN "expired"
        ELSE "live"

\* one call of get_short_callback_data (a keyboard is being built)
GetShortCallbackData(url) ==
    /\ cb_ops_left > 0
    /\ url_cache' = Registered(url_cache, url, cb_clock)
    /\ last_cb' = [kind |-> "register", url |-> url, before |-> url_cache]
    /\ cb_ops_left' = cb_ops_left - 1
    /\ UNCHANGED <<cb_clock, cb_ticks, pending_tag_url>>
    /\ UNCHANGED notCallback

\* button_callback with data that does not split: no ':' in it, or a
\* tag_apply without '|'
ButtonCallbackMalformed(action) ==
    /\ cb_ops_left > 0
    /\ action \in {"nocolon", "tag_apply"}
    /\ last_cb' = [kind |-> "callback", action |-> action, found |-> "absent",
                   answer |-> "data_error", store_op |-> "none", before |-> url_cache]
    /\ cb_ops_left' = cb_ops_left - 1
    /\ UNCHANGED <<url_cache, cb_clock, cb_ticks, pending_tag_url>>
    /\ UNCHANGED notCallback

\* button_callback(action:hash_key): _cleanup_url_cache, url_cache.get, the
\* 'expired' answer when there is no entry, otherwise the action: tag_apply
\* adds the tag; tag_new asks for a tag name; recheck parses and, on
\* success, stores the result and builds a new keyboard; delete removes;
\* tag builds the tag_new button when the store has tags, else asks for a
\* tag name.
ButtonCallback(action, url, ok) ==
    LET key == HashKey(url)
        cleaned == CleanupUrlCache(url_cache, cb_clock)
        cache_entry == CacheGet(cleaned, key)
        found == EntryState(url_cache, key, cb_clock)
        Done(answer, store_op) ==
            last_cb' = [kind |-> "callback", action |-> action, found |-> found,
                        answer |-> answer, store_op |-> store_op, before |-> url_cache]
    IN  /\ cb_ops_left > 0
        /\ cb_ops_left' = cb_ops_left - 1
        /\ IF cache_entry = Nothing
             THEN /\ Done("expired", "none")
                  /\ url_cache' = cleaned
                  /\ UNCHANGED pending_tag_url
           ELSE CASE action = "tag_apply" ->
                       /\ Done(IF ok THEN "tag_added" ELSE "tag_exists", "add_tag")
                       /\ url_cache' = cleaned
                       /\ UNCHANGED pending_tag_url
                  [] action = "tag_new" ->
                       /\ Done("ask_tag", "get_all")
                       /\ url_cache' = cleaned
                       /\ pending_tag_url' = Some(cache_entry[1].url)
                  [] action = "recheck" ->
                       /\ Done(IF ok THEN "rechecked" ELSE "recheck_failed",
                               IF ok THEN "add_or_update" ELSE "none")
                       /\ url_cache' = IF ok THEN SubKeyboard(cleaned, cache_entry[1].url, cb_clock)
                                       ELSE cleaned
                       /\ UNCHANGED pending_tag_url
                  [] action = "delete" ->
                       /\ Done(IF ok THEN "deleted" ELSE "delete_failed", "remove")
                       /\ url_cache' = cleaned
                       /\ UNCHANGED pending_tag_url
                  [] OTHER ->
                       /\ Done(IF ok THEN "choose_tag" ELSE "ask_tag", "get_all_tags")
                       /\ url_cache' = IF ok THEN Registered(cleaned, cache_entry[1].url, cb_clock)
                                       ELSE cleaned
                       /\ pending_tag_url' = IF ok THEN pending_tag_url
                                             ELSE Some(cache_entry[1].url)
        /\ UNCHANGED <<cb_clock, cb_ticks>>
        /\ UNCHANGED notCallback

\* time passes between two updates
CbTick(d) ==
    /\ cb_ticks > 0
    /\ cb_ticks' = cb_ticks - 1
    /\ cb_clock' = cb_clock + d
    /\ UNCHANGED <<url_cache, cb_ops_left, last_cb, pending_tag_url>>
    /\ UNCHANGED notCallback

\* the URLs of the run: the oldest entry of a loaded dict, and two that no
\* loaded dict has
CbUrls == {1, URL_CACHE_MAX_SIZE + 1, URL_CACHE_MAX_SIZE + 2}
CbActions == {"recheck", "delete", "tag", "tag_apply", "tag_new"}

CallbackNext ==
    \/ \E url \in CbUrls : GetShortCallbackData(url)
    \/ \E action \in {"nocolon", "tag_apply"} : ButtonCallbackMalformed(action)
    \/ \E action \in CbActions, url \in CbUrls, ok \in BOOLEAN :
          ButtonCallback(action, url, ok)
    \/ \E d \in {URL_CACHE_TTL_SECONDS, URL_CACHE_TTL_SECONDS + 1} : CbTick(d)

\* the dict after n registrations of the URLs 1..n at time 0
LoadedUrlCache(n) == [j \in 1..n |-> [key |-> HashKey(j), url |-> j, ts |-> 0]]

\* The bot has been running: the dict holds the buttons of earlier messages.
CallbackInit ==
    /\ url_cache \in {LoadedUrlCache(n) :
                        n \in {0, 1, URL_CACHE_MAX_SIZE - 1, URL_CACHE_MAX_SIZE}}
    /\ cb_clock = 0
    /\ cb_ticks = MaxCbTicks
    /\ cb_ops_left = MaxCbOps
    /\ last_cb = [kind |-> "none"]
    /\ pending_tag_url = Nothing
    /\ an_pc = "idle"
    /\ an_headers = Nothing
    /\ an_nodes = << >>
    /\ an_url = [netloc |-> << >>]
    /\ an_k = 1
    /\ common_patterns = << >>
    /\ airport_name = << >>
    /\ ti_pc = "idle"
    /\ userinfo = << >>
    /\ ti_i = 1
    /\ traffic_info = << >>
    /\ ti_raised = None
    /\ rt_pc = "idle"
    /\ wrapped = "_fetch"
    /\ max_retries = 3
    /\ initial_delay = 10
    /\ backoff_factor = 2
    /\ attempt = 0
    /\ delay = 10
    /\ last_exception = None
    /\ raised = None
    /\ call_trace = << >>
    /\ sleeps = << >>
    /\ safe_result = "pending"
    /\ user_data = << >>
    /\ im_store = << >>
    /\ im_log = << >>
    /\ im_left = 0
    /\ im_clock = 0
    /\ ck_pc = "idle"
    /\ ck_store = << >>
    /\ ck_before = << >>
    /\ ck_tag = Nothing
    /\ ck_subs = {}
    /\ ck_task = << >>
    /\ ck_sem = 0
    /\ ck_results = << >>
    /\ ck_report = Nothing
    /\ ck_clock = 0
    /\ pn_pc = "idle"
    /\ content = EmptyPayload
    /\ nodes = << >>
    /\ pn_i = 1
    /\ cache = << >>
    /\ cache_dirty = FALSE
    /\ cache_new_entries = 0
    /\ last_cache_save = 0
    /\ cache_file = [state |-> "absent", data |-> << >>]
    /\ clock = 0
    /\ ticks_left = 0
    /\ api_mode = "up"
    /\ disk = "ok"
    /\ inserted_at = << >>
    /\ lookup_log = << >>
    /\ max_hit_age = 0
    /\ th = [t \in Threads |-> ThreadAtRest]
    /\ handler = "none"
    /\ urls = << >>
    /\ semaphore = ParseSlots
    /\ task_pc = << >>
    /\ parse_calls = << >>
    /\ results = << >>
    /\ batch_pc = "idle"
    /\ max_in_flight = 0
    /\ proc = "running"
    /\ st_pc = "idle"
    /\ subscriptions = << >>
    /\ files = [f \in {"data", "tmp", "export"} |-> AbsentFile]
    /\ batch = FALSE
    /\ batch_writes = 0
    /\ st_clock = 0
    /\ ops_left = 0
    /\ faults_left = 0
    /\ last_op = [op |-> "none"]
    /\ prev_data = AbsentFile
    /\ save_status = "none"
    /\ exported = Nothing
    /\ fh_pc = "idle"
    /\ fh_file = [file_type |-> "none", content |-> EmptyPayload]
    /\ fh_nodes = << >>
    /\ fh_i = 1
    /\ analyzed = Nothing
    /\ cls_instance = Nothing
    /\ objs = << >>
    /\ ctor = [t \in Threads |-> [pc |-> "idle", self |-> 0, left |-> 0]]
    /\ init_runs = 0
    /\ hooks = 0
    /\ returned = {}
    /\ sg_file = {}

(***************************************************************************)
(* bot_async.py: check_command and what it does to the subscriptions of    *)
(* the store (storage_enhanced.py: get_all, get_by_tag, add_or_update,     *)
(* remove).  Updates are handled one at a time, so nothing but the tasks   *)
(* of the command touches the store while it runs.                         *)
(***************************************************************************)

\* subscriptions in the store when /check arrives
MaxChecked == 3

\* get_by_tag: `if tag in data.get('tags', [])`
HasTag(data, tag) ==
    \E k \in 1..Len(Get(data, "tags", << >>)) : data.tags[k] = tag
GetByTag(subs, tag) == {url \in DOMAIN subs : HasTag(subs[url], tag)}

\* check_one: `remaining is not None and remaining <= 0`
ExhaustedMutant(result) == "remaining" \in DOMAIN result /\ result.remaining < 0
Exhausted(result) == "remaining" \in DOMAIN result /\ result.remaining <= 0

\* check_command up to gather: the subscriptions to check (all of them, or
\* those of the tag), the early return when there are none, the semaphore
\* and one task per subscription
CheckStart ==
    /\ ck_pc = "call"
    /\ LET subs == IF ck_tag = Nothing THEN DOMAIN ck_store
                   ELSE GetByTag(ck_store, ck_tag[1])
       IN  /\ ck_subs' = subs
           /\ ck_pc' = IF subs = {} THEN "empty" ELSE "gather"
           /\ ck_task' = [url \in subs |-> "wait"]
    /\ ck_sem' = ParseSlots
    /\ UNCHANGED <<ck_store, ck_before, ck_tag, ck_results, ck_report, ck_clock>>
    /\ UNCHANGED notCheck

\* check_one: `async with semaphore`, then the parse goes to the executor
CheckOneAcquire(url) ==
    /\ ck_pc = "gather"
    /\ url \in ck_subs
    /\ ck_task[url] = "wait"
    /\ ~Locked(ck_sem)
    /\ ck_sem' = ck_sem - 1
    /\ ck_task' = [ck_task EXCEPT ![url] = "parsing"]
    /\ UNCHANGED <<ck_pc, ck_store, ck_before, ck_tag, ck_subs, ck_results, ck_report,
                   ck_clock>>
    /\ UNCHANGED notCheck

\* check_one once the parse has ended: a result with traffic left (or with
\* no 'remaining') is stored by add_or_update; an exception of parse or an
\* exhausted result removes the subscription; the semaphore is released
CheckOneFinish(url, parsed) ==
    /\ ck_pc = "gather"
    /\ url \in ck_subs
    /\ ck_task[url] = "parsing"
    /\ ck_clock' = ck_clock + 1
    /\ IF parsed = Nothing \/ Exhausted(parsed[1])
         THEN /\ ck_store' = IF url \in DOMAIN ck_store THEN DictDel(ck_store, url)
                             ELSE ck_store
              /\ ck_results' = DictSet(ck_results, url,
                                       [status |-> "failed", parsed |-> parsed])
         ELSE /\ ck_store' = DictSet(ck_store, url,
                                     EntryOf(ck_store, url, parsed[1], ck_clock'))
              /\ ck_results' = DictSet(ck_results, url,
                                       [status |-> "success", parsed |-> parsed])
    /\ ck_sem' = ck_sem + 1
    /\ ck_task' = [ck_task EXCEPT ![url] = "done"]
    /\ UNCHANGED <<ck_pc, ck_before, ck_tag, ck_subs, ck_report>>
    /\ UNCHANGED notCheck

\* gather has returned: the counts of the report
CheckReport ==
    /\ ck_pc = "gather"
    /\ \A url \in ck_subs : ck_task[url] = "done"
    /\ ck_report' =
          Some([total   |-> Cardinality(DOMAIN ck_results),
                success |-> Cardinality({u \in DOMAIN ck_results :
                                            ck_results[u].status = "success"}),
                failed  |-> Cardinality({u \in DOMAIN ck_results :
                                            ck_results[u].status = "failed"})])
    /\ ck_pc' = "done"
    /\ UNCHANGED <<ck_store, ck_before, ck_tag, ck_subs, ck_task, ck_sem, ck_results,
                   ck_clock>>
    /\ UNCHANGED notCheck

\* the URLs of the subscriptions
CheckUrls == <<"u1", "u2", "u3", "u4", "u5">>

\* what parse returns (Nothing: it raises)
CheckParses ==
    { Nothing,
      Some([name |-> "Air1", node_count |-> 5]),
      Some([name |-> "Air2", node_count |-> 10, total |-> 100, used |-> 40,
            remaining |-> 60]),
      Some([name |-> "Air2", node_count |-> 10, total |-> 100, used |-> 100,
            remaining |-> 0]),
      Some([name |-> "Air2", node_count |-> 10, total |-> 100, used |-> 105,
            remaining |-> -5]) }

CheckNext ==
    \/ CheckStart
    \/ \E k \in 1..Len(CheckUrls) : CheckOneAcquire(CheckUrls[k])
    \/ \E k \in 1..Len(CheckUrls), parsed \in CheckParses :
          CheckOneFinish(CheckUrls[k], parsed)
    \/ CheckReport

\* the store before /check: k entries; the odd ones carry the tag "main", the
\* even ones the tag "other" or (every fourth) no 'tags' field at all
CheckEntry(k) ==
    IF k % 4 = 0
      THEN [name |-> "Old", url |-> CheckUrls[k], updated_at |-> 0, expire_time |-> None,
            node_count |-> 3, last_check_status |-> "success", added_at |-> 0]
      ELSE [name |-> "Air0", url |-> CheckUrls[k], updated_at |-> 0, expire_time |-> None,
            node_count |-> 1, total |-> 0, used |-> 0, remaining |-> 0,
            last_check_status |-> "success",
            tags |-> IF k % 2 = 1 THEN <<"main">> ELSE <<"other">>, added_at |-> 0]
CheckStore(n) == [url \in {CheckUrls[k] : k \in 1..n} |->
                     CheckEntry(CHOOSE k \in 1..n : CheckUrls[k] = url)]

CheckInit ==
    /\ ck_pc = "call"
    /\ \E n \in 0..MaxChecked :
          /\ ck_store = CheckStore(n)
          /\ ck_before = CheckStore(n)
    /\ ck_tag \in {Nothing, Some("main"), Some("other"), Some("unused")}
    /\ ck_subs = {}
    /\ ck_task = << >>
    /\ ck_sem = 0
    /\ ck_results = << >>
    /\ ck_report = Nothing
    /\ ck_clock = 0
    /\ an_pc = "idle"
    /\ an_headers = Nothing
    /\ an_nodes = << >>
    /\ an_url = [netloc |-> << >>]
    /\ an_k = 1
    /\ common_patterns = << >>
    /\ airport_name = << >>
    /\ ti_pc = "idle"
    /\ userinfo = << >>
    /\ ti_i = 1
    /\ traffic_info = << >>
    /\ ti_raised = None
    /\ rt_pc = "idle"
    /\ wrapped = "_fetch"
    /\ max_retries = 3
    /\ initial_delay = 10
    /\ backoff_factor = 2
    /\ attempt = 0
    /\ delay = 10
    /\ last_exception = None
    /\ raised = None
    /\ call_trace = << >>
    /\ sleeps = << >>
    /\ safe_result = "pending"
    /\ user_data = << >>
    /\ im_store = << >>
    /\ im_log = << >>
    /\ im_left = 0
    /\ im_clock = 0
    /\ pn_pc = "idle"
    /\ content = EmptyPayload
    /\ nodes = << >>
    /\ pn_i = 1
    /\ cache = << >>
    /\ cache_dirty = FALSE
    /\ cache_new_entries = 0
    /\ last_cache_save = 0
    /\ cache_file = [state |-> "absent", data |-> << >>]
    /\ clock = 0
    /\ ticks_left = 0
    /\ api_mode = "up"
    /\ disk = "ok"
    /\ inserted_at = << >>
    /\ lookup_log = << >>
    /\ max_hit_age = 0
    /\ th = [t \in Threads |-> ThreadAtRest]
    /\ handler = "none"
    /\ urls = << >>
    /\ semaphore = ParseSlots
    /\ task_pc = << >>
    /\ parse_calls = << >>
    /\ results = << >>
    /\ batch_pc = "idle"
    /\ max_in_flight = 0
    /\ proc = "running"
    /\ st_pc = "idle"
    /\ subscriptions = << >>
    /\ files = [f \in {"data", "tmp", "export"} |-> AbsentFile]
    /\ batch = FALSE
    /\ batch_writes = 0
    /\ st_clock = 0
    /\ ops_left = 0
    /\ faults_left = 0
    /\ last_op = [op |-> "none"]
    /\ prev_data = AbsentFile
    /\ save_status = "none"
    /\ exported = Nothing
    /\ fh_pc = "idle"
    /\ fh_file = [file_type |-> "none", content |-> EmptyPayload]
    /\ fh_nodes = << >>
    /\ fh_i = 1
    /\ analyzed = Nothing
    /\ cls_instance = Nothing
    /\ objs = << >>
    /\ ctor = [t \in Threads |-> [pc |-> "idle", self |-> 0, left |-> 0]]
    /\ init_runs = 0
    /\ hooks = 0
    /\ returned = {}
    /\ sg_file = {}
    /\ url_cache = << >>
    /\ cb_clock = 0
    /\ cb_ticks = 0
    /\ cb_ops_left = 0
    /\ last_cb = [kind |-> "none"]
    /\ pending_tag_url = Nothing

(***************************************************************************)
(* /import and the uploaded documents: import_command and handle_document  *)
(* of bot_async.py.  The application is built without concurrent_updates,  *)
(* so one update is handled to its end before the next one starts.         *)
(***************************************************************************)

MaxImUpdates == 3

ImUsers == {"user1", "user2"}

\* InputDetector.detect_file_type: the suffix of the lower-cased file name
\* (a file name is <<stem, suffix>>)
DetectFileType(filename) ==
    LET filename_lower == Lower(filename[2])
    IN  IF filename_lower = ".txt" THEN "txt"
        ELSE IF filename_lower \in {".yaml", ".yml"} THEN "yaml"
        ELSE IF filename_lower = ".json" THEN "json"
        ELSE "unknown"

\* `context.user_data.get('awaiting_import')` is truthy
AwaitingImportMutant(ud) == TRUE
AwaitingImport(ud) == "awaiting_import" \in DOMAIN ud /\ ud["awaiting_import"]

\* what import_from_file(import_file) does to the subscriptions and what it
\* returns, on the file that handle_document has written
ImportResult(subs, file, merge) ==
    LET readable == file.state = "complete"
        import_data == JsonLoadObject(file.doc)
        valid == readable /\ "subscriptions" \in DOMAIN import_data
        mapping == valid /\ IsJsonObject(import_data["subscriptions"])
        imported_subs == JsonLoad(import_data["subscriptions"])
    IN  [subs |-> IF mapping THEN Overwrite(ImportBase(subs, merge), imported_subs)
                  ELSE IF valid THEN ImportBase(subs, merge)
                  ELSE subs,
         ret  |-> IF mapping THEN Cardinality(DOMAIN imported_subs) ELSE 0]

\* import_command: /import sets the flag in the sender's user_data
ImportCommand(user) ==
    /\ im_left > 0
    /\ im_left' = im_left - 1
    /\ user_data' = [user_data EXCEPT ![user] = DictSet(@, "awaiting_import", TRUE)]
    /\ im_log' = Append(im_log, [update |-> "/import", user |-> user,
                                 before |-> im_store, after |-> im_store])
    /\ UNCHANGED <<im_store, im_clock>>
    /\ UNCHANGED notImport

\* handle_document: an unknown file type is refused; a download that raises
\* ends in the handler's except branch; a JSON file is refused unless
\* awaiting_import is set, else it is written to data/import_<timestamp>.json
\* (a write that raises ends in the except branch), imported with merge=True
\* and removed, and the flag is popped; the subscription links of a txt file
\* are parsed and stored with add_or_update; anything else is analysed as a
\* node list, which does not touch the store.
HandleDocument(user, document, downloaded, written, parsed) ==
    /\ im_left > 0
    /\ im_left' = im_left - 1
    /\ im_clock' = im_clock + 1
    /\ LET file_type == DetectFileType(document.file_name)
           fetched == file_type # "unknown" /\ downloaded
           imports == /\ fetched
                      /\ file_type = "json"
                      /\ AwaitingImport(user_data[user])
                      /\ written
           result == ImportResult(im_store, document.content, TRUE)
           links == IF fetched /\ file_type = "txt" THEN document.urls ELSE << >>
           stored == {k \in 1..Len(links) : parsed}
       IN  /\ im_store' =
                 IF imports THEN result.subs
                 ELSE [url \in DOMAIN im_store \cup {links[k] : k \in stored} |->
                          IF \E k \in stored : links[k] = url
                            THEN EntryOf(im_store, url, [name |-> "Air1", node_count |-> 5],
                                         im_clock')
                            ELSE im_store[url]]
           /\ user_data' = IF imports
                             THEN [user_data EXCEPT ![user] = DictDel(@, "awaiting_import")]
                             ELSE user_data
           /\ im_log' = Append(im_log,
                 [update |-> "document", user |-> user, file_type |-> file_type,
                  imported |-> imports,
                  imported_count |-> IF imports THEN result.ret ELSE 0,
                  before |-> im_store, after |-> im_store'])
    /\ UNCHANGED notImport

\* the documents users upload: an export of one subscription, the same under
\* an upper-case name, a JSON document without 'subscriptions', bytes that
\* are no JSON, a txt file with one subscription link, a yaml file and a
\* picture
ImExported ==
    [u \in {"u2"} |->
        [name |-> "Air2", url |-> "u2", updated_at |-> 0, expire_time |-> None,
         node_count |-> 10, total |-> 100, used |-> 40, remaining |-> 60,
         last_check_status |-> "success", tags |-> <<"main">>, added_at |-> 0]]
ImDocument(stem, suffix, bytes, links) ==
    [file_name |-> <<stem, suffix>>, content |-> bytes, urls |-> links]
ImDocuments ==
    { ImDocument("export", ".json", WrittenFile(JsonDumpObject(ExportData(ImExported, 0))), << >>),
      ImDocument("EXPORT", ".JSON", WrittenFile(JsonDumpObject(ExportData(ImExported, 0))), << >>),
      ImDocument("notes", ".json", WrittenFile(JsonDumpObject([version |-> "1.0"])), << >>),
      ImDocument("broken", ".json", TruncatedFile, << >>),
      ImDocument("subs", ".txt", AbsentFile, <<"u3">>),
      ImDocument("config", ".yml", AbsentFile, << >>),
      ImDocument("photo", ".png", AbsentFile, << >>) }

ImportNext ==
    \/ \E user \in ImUsers : ImportCommand(user)
    \/ \E user \in ImUsers, document \in ImDocuments, downloaded, written, parsed \in BOOLEAN :
          HandleDocument(user, document, downloaded, written, parsed)

\* the bot has started: no user has sent anything, the store holds what
\* _load_data found
ImportInit ==
    /\ user_data = [user \in ImUsers |-> << >>]
    /\ im_store \in LoadedStores
    /\ im_log = << >>
    /\ im_left = MaxImUpdates
    /\ im_clock = 0
    /\ an_pc = "idle"
    /\ an_headers = Nothing
    /\ an_nodes = << >>
    /\ an_url = [netloc |-> << >>]
    /\ an_k = 1
    /\ common_patterns = << >>
    /\ airport_name = << >>
    /\ ti_pc = "idle"
    /\ userinfo = << >>
    /\ ti_i = 1
    /\ traffic_info = << >>
    /\ ti_raised = None
    /\ rt_pc = "idle"
    /\ wrapped = "_fetch"
    /\ max_retries = 3
    /\ initial_delay = 10
    /\ backoff_factor = 2
    /\ attempt = 0
    /\ delay = 10
    /\ last_exception = None
    /\ raised = None
    /\ call_trace = << >>
    /\ sleeps = << >>
    /\ safe_result = "pending"
    /\ pn_pc = "idle"
    /\ content = EmptyPayload
    /\ nodes = << >>
    /\ pn_i = 1
    /\ cache = << >>
    /\ cache_dirty = FALSE
    /\ cache_new_entries = 0
    /\ last_cache_save = 0
    /\ cache_file = [state |-> "absent", data |-> << >>]
    /\ clock = 0
    /\ ticks_left = 0
    /\ api_mode = "up"
    /\ disk = "ok"
    /\ inserted_at = << >>
    /\ lookup_log = << >>
    /\ max_hit_age = 0
    /\ th = [t \in Threads |-> ThreadAtRest]
    /\ handler = "none"
    /\ urls = << >>
    /\ semaphore = ParseSlots
    /\ task_pc = << >>
    /\ parse_calls = << >>
    /\ results = << >>
    /\ batch_pc = "idle"
    /\ max_in_flight = 0
    /\ proc = "running"
    /\ st_pc = "idle"
    /\ subscriptions = << >>
    /\ files = [f \in {"data", "tmp", "export"} |-> AbsentFile]
    /\ batch = FALSE
    /\ batch_writes = 0
    /\ st_clock = 0
    /\ ops_left = 0
    /\ faults_left = 0
    /\ last_op = [op |-> "none"]
    /\ prev_data = AbsentFile
    /\ save_status = "none"
    /\ exported = Nothing
    /\ fh_pc = "idle"
    /\ fh_file = [file_type |-> "none", content |-> EmptyPayload]
    /\ fh_nodes = << >>
    /\ fh_i = 1
    /\ analyzed = Nothing
    /\ cls_instance = Nothing
    /\ objs = << >>
    /\ ctor = [t \in Threads |-> [pc |-> "idle", self |-> 0, left |-> 0]]
    /\ init_runs = 0
    /\ hooks = 0
    /\ returned = {}
    /\ sg_file = {}
    /\ url_cache = << >>
    /\ cb_clock = 0
    /\ cb_ticks = 0
    /\ cb_ops_left = 0
    /\ last_cb = [kind |-> "none"]
    /\ pending_tag_url = Nothing
    /\ ck_pc = "idle"
    /\ ck_store = << >>
    /\ ck_before = << >>
    /\ ck_tag = Nothing
    /\ ck_subs = {}
    /\ ck_task = << >>
    /\ ck_sem = 0
    /\ ck_results = << >>
    /\ ck_report = Nothing
    /\ ck_clock = 0

SpecRetry == RetryInit /\ [][RetryNext]_vars
SpecSafe == SafeInit /\ [][SafeNext]_vars
SpecStore == StoreInit /\ [][StoreNext]_vars
SpecFile == FileInit /\ [][FileNext]_vars
SpecParse == ParseInit /\ [][ParseNext]_vars
SpecGeo == GeoInit /\ [][GeoNext]_vars
SpecGeoMT == GeoMTInit /\ [][GeoNext]_vars
SpecTraffic == TrafficInit /\ [][TrafficNext]_vars
SpecAirport == AirportInit /\ [][AirportNext]_vars

\* The event loop runs every task that can go on, and a parse handed to the
\* executor comes back (its requests have timeouts and its retries are
\* bounded): each task's steps and the end of gather are weakly fair.
SpecBot ==
    /\ BotInit
    /\ [][BotNext]_vars
    /\ \A s \in 1..MaxSubs : WF_vars(TaskStep(s))
    /\ WF_vars(EndBatch)

(***************************************************************************)
(* Properties of the retry wrapper                                         *)
(***************************************************************************)

\* the i-th invocation raised an exception that `except exceptions` catches
FailedRetryable(i) ==
    /\ call_trace[i].outcome # "ok"
    /\ IsInstance(call_trace[i].outcome, DefaultExceptions)

AllFailedRetryable == \A i \in 1..Len(call_trace) : FailedRetryable(i)

\* C3: a wrapped call whose function raises a retryable exception on every
\* attempt never invokes it more than max_retries times and never returns;
\* when it ends it has invoked the function exactly max_retries times and
\* raises the exception of the last attempt; until then a step is enabled
\* (it does not hang), and it sleeps only between attempts.
C3_RetryExhaustion ==
    /\ Len(call_trace) <= max_retries
    /\ Len(sleeps) <= Len(call_trace)
    /\ (AllFailedRetryable /\ call_trace # << >>) =>
          /\ rt_pc # "returned"
          /\ rt_pc = "raised" =>
                /\ Len(call_trace) = max_retries
                /\ raised = call_trace[Len(call_trace)].outcome
                /\ raised = last_exception
          /\ rt_pc \in {"loop", "sleep"} =>
                /\ Len(call_trace) < max_retries
                /\ ENABLED RetryNext

C3_Witness ==
    /\ rt_pc = "raised"
    /\ max_retries = 3
    /\ Len(call_trace) = 3
    /\ AllFailedRetryable
    /\ raised = "requests.Timeout"

\* C4: with max_retries >= 3, a function that fails twice with a retryable
\* error is invoked a third time, and if that invocation succeeds the wrapper
\* returns after exactly 3 invocations and exactly 2 sleeps, the first of
\* initial_delay, the second strictly longer when backoff_factor > 1, and
\* nothing (no sleep) follows the successful attempt.
C4_FailTwiceThenSucceed ==
    (/\ max_retries >= 3
     /\ Len(call_trace) >= 2
     /\ FailedRetryable(1)
     /\ FailedRetryable(2)) =>
        /\ (Len(call_trace) = 2 => rt_pc \in {"sleep", "loop"})
        /\ (Len(call_trace) >= 3 /\ call_trace[3].outcome = "ok") =>
              /\ rt_pc = "returned"
              /\ Len(call_trace) = 3
              /\ Len(sleeps) = 2
              /\ sleeps[1] = initial_delay
              /\ (backoff_factor > 1 => sleeps[2] > sleeps[1])
              /\ ~ENABLED RetryNext

C4_Witness ==
    /\ rt_pc = "returned"
    /\ backoff_factor = 2
    /\ initial_delay = 1
    /\ Len(call_trace) = 3
    /\ FailedRetryable(1) /\ FailedRetryable(2)
    /\ call_trace[3].outcome = "ok"
    /\ sleeps = <<1, 2>>

\* C5 (as claimed): when the origin answers the first GET of _fetch with a
\* 4xx status, that GET is the only one, no sleep happens and the failure is
\* surfaced at once.
C5_NoRetryOn4xx ==
    (/\ wrapped = "_fetch"
     /\ call_trace # << >>
     /\ call_trace[1].event = "404") =>
        /\ Len(call_trace) = 1
        /\ sleeps = << >>
        /\ rt_pc = "raised"

\* C33 (as claimed): the code after the retry loop is unreachable: a call of
\* the wrapper that has ended has invoked the function at least once, and it
\* either returned the result of the last invocation or raised the exception
\* the last invocation raised, for every max_retries, 0 included.
C33_LoopAlwaysDecides ==
    rt_pc \in {"returned", "raised"} =>
        /\ call_trace # << >>
        /\ rt_pc = "returned" => call_trace[Len(call_trace)].outcome = "ok"
        /\ rt_pc = "raised" => raised = call_trace[Len(call_trace)].outcome

(***************************************************************************)
(* Properties of the geo enrichment                                        *)
(***************************************************************************)

\* the external requests that thread t's call of _analyze_nodes has issued
RequestsBy(t) == {k \in 1..Len(lookup_log) : lookup_log[k].thread = t}

\* the nodes of thread t whose endpoint passes `ip and is_valid_ip(ip)`
ValidEndpoints(t) ==
    {k \in 1..Len(th[t].nodes) :
        /\ Truthy(ExtractIp(th[t].nodes[k]))
        /\ IsValidIp(ExtractIp(th[t].nodes[k])[1])}

\* C2: one call of _analyze_nodes issues at most MAX_GEO_QUERIES (50)
\* external geo lookup requests, whatever the number of nodes and the mix of
\* cache hits, misses and failed lookups: the requests never outnumber
\* geo_queries_count, which never exceeds 50.
C2_GeoQueryBudget ==
    \A t \in Threads :
        /\ Cardinality(RequestsBy(t)) <= th[t].geo_queries_count
        /\ th[t].geo_queries_count <= MAX_GEO_QUERIES

C2_Witness ==
    /\ th["t1"].pc = "done"
    /\ Cardinality(ValidEndpoints("t1")) > MAX_GEO_QUERIES
    /\ api_mode = "fail"
    /\ cache = << >>
    /\ Cardinality(RequestsBy("t1")) = MAX_GEO_QUERIES

\* the external requests of thread t for endpoint ip
RequestedBy(t, ip) == {j \in RequestsBy(t) : lookup_log[j].ip = ip}

\* C29 (as claimed): cache hits do not consume the per-parse query budget:
\* geo_queries_count counts only the lookups that went past the cache to
\* the API, so that a finished parse that issued fewer than MAX_GEO_QUERIES
\* (50) external requests has requested every valid endpoint that is not in
\* the cache, also the ones that follow 50 cached endpoints.
C29_CacheHitsFree ==
    \A t \in Threads :
        /\ th[t].geo_queries_count
              <= Cardinality(RequestsBy(t)) + (IF th[t].pc = "http" THEN 1 ELSE 0)
        /\ (th[t].pc = "done" /\ Cardinality(RequestsBy(t)) < MAX_GEO_QUERIES) =>
              \A k \in ValidEndpoints(t) :
                  LET ip == ExtractIp(th[t].nodes[k])[1]
                  IN  (~NotQueried(ip) /\ ip \notin DOMAIN cache) =>
                          RequestedBy(t, ip) # {}

\* the case of C29: 50 cached endpoints, then an uncached one that the parse
\* has passed without a request
BudgetSpentOnHits ==
    /\ th["t1"].pc = "done"
    /\ Len(th["t1"].nodes) > MAX_GEO_QUERIES
    /\ \A k \in 1..MAX_GEO_QUERIES : th["t1"].nodes[k].server \in DOMAIN cache
    /\ th["t1"].nodes[MAX_GEO_QUERIES + 1].server \notin DOMAIN cache
    /\ lookup_log = << >>
    /\ th["t1"].geo_queries_count = MAX_GEO_QUERIES

\* an endpoint written as a dotted quad with octets in 0..255
LiteralIp(ipOpt) ==
    /\ Truthy(ipOpt)
    /\ ipOpt[1].kind = "ipv4"
    /\ \A k \in 1..4 : ipOpt[1].octets[k] >= 0 /\ ipOpt[1].octets[k] <= 255

\* an endpoint that is a hostname
Hostname(ipOpt) == Truthy(ipOpt) /\ ipOpt[1].kind = "host"

\* no endpoint, an empty one, or one that is neither a dotted quad with
\* octets in 0..255 nor a hostname
AbsentOrInvalid(ipOpt) ==
    \/ ~Truthy(ipOpt)
    \/ ipOpt[1].kind = "other"
    \/ ipOpt[1].kind = "ipv4" /\ ~LiteralIp(ipOpt)

\* One iteration of thread t's loop over a node: when the endpoint is one of
\* those sent to the lookup and the budget is left, get_location is called for
\* it and the budget is charged; when the endpoint is one of those kept from
\* the lookup, no request is made, the budget is as it was and the node is
\* classified by the keywords of its name.
IterationSends(t, sent(_), kept(_)) ==
    LET a == th[t]
        node == a.nodes[a.i]
        ipOpt == ExtractIp(node)
    IN  (/\ a.pc = "loop" /\ a.i <= Len(a.nodes)
         /\ th'[t] # a /\ th'[t].pc # "killed") =>
            /\ (sent(ipOpt) /\ a.geo_queries_count < MAX_GEO_QUERIES) =>
                  /\ th'[t].geo_queries_count = a.geo_queries_count + 1
                  /\ th'[t].ip = ipOpt[1]
            /\ kept(ipOpt) =>
                  /\ th'[t].geo_queries_count = a.geo_queries_count
                  /\ lookup_log' = lookup_log
                  /\ th'[t].pc = "loop"
                  /\ th'[t].i = a.i + 1
                  /\ th'[t].countries =
                        Append(a.countries, MatchCountryByKeyword(NodeGet(node, "name", "")))

C6_CacheCapacity == Cardinality(DOMAIN cache) <= 500

\* C7 (as claimed): no entry older than the TTL of 24 h (86400 s) is ever
\* returned as a cache hit, and once an entry is inserted no entry that is
\* more than the TTL older than it is left in the cache.
C7_TtlExpiry ==
    /\ max_hit_age <= 86400
    /\ LET stamps == {inserted_at[e] : e \in DOMAIN cache}
       IN  \A a, b \in stamps : b - a <= 86400

\* C8 (as claimed): two external requests for the same endpoint are at least
\* one TTL window (86400 s) apart.
C8_OncePerEndpoint ==
    \A j, k \in 1..Len(lookup_log) :
        (j < k /\ lookup_log[j].ip = lookup_log[k].ip) =>
            lookup_log[k].at - lookup_log[j].at >= 86400

\* a thread that has entered the insert / _cache_dirty / _cache_new_entries /
\* save sequence of get_location and has not left it
InMutation(t) ==
    th[t].pc \in {"dirty", "inc_read", "inc_write", "persist", "save_open",
                  "save_dump", "clean_dirty", "clean_count"}

\* C9 (as claimed): the mutations of the shared cache are serialized: no two
\* threads are inside the mutation sequence at once, the cache does not
\* change while a save iterates over it, and whenever no thread is inside
\* the sequence _cache_new_entries is the number of entries inserted since
\* the last save.
C9_SerializedMutations ==
    /\ \A t, u \in Threads : (t # u /\ InMutation(t)) => ~InMutation(u)
    /\ \A t \in Threads :
          th[t].pc = "save_dump" => Cardinality(DOMAIN cache) = th[t].size
    /\ (\A t \in Threads : ~InMutation(t)) =>
          cache_new_entries = Cardinality(DOMAIN cache \ DOMAIN cache_file.data)

\* C11 (as claimed): when the process is killed, the cache file holds a
\* complete mapping (the previous one or the new one), never a truncated or
\* partly written one.
C11_AtomicFlush == proc = "killed" => cache_file.state # "partial"

\* C12 (as claimed): after a normal exit every entry inserted during the
\* life of the process is in a completely written cache file.
C12_FlushAtExit ==
    proc = "exited" =>
        /\ cache_file.state # "partial"
        /\ \A e \in DOMAIN inserted_at : e \in DOMAIN cache_file.data

\* the samples of country c in thread t's locations_detail
SamplesOf(t, c) ==
    {k \in 1..Len(th[t].locations_detail) : th[t].locations_detail[k].country = c}

\* the keys of dict(Counter(countries))
HistogramKeys(t) == {th[t].countries[k] : k \in 1..Len(th[t].countries)}

\* C13 (as claimed): the locations that _analyze_nodes collects hold at most
\* 3 samples per country, whether the country came from a lookup or from the
\* keyword fallback, and every sample's country is a key of the histogram.
C13_SamplesPerCountry ==
    \A t \in Threads :
        /\ \A c \in AllCountries : Cardinality(SamplesOf(t, c)) <= 3
        /\ \A k \in 1..Len(th[t].locations_detail) :
              th[t].locations_detail[k].country \in HistogramKeys(t)

\* dict(Counter(seq)): the number of occurrences of every element
CounterOf(seq) ==
    [x \in {seq[k] : k \in 1..Len(seq)} |->
        Cardinality({k \in 1..Len(seq) : seq[k] = x})]

\* sum(counter.values())
RECURSIVE SumValues(_, _)
SumValues(counter, keys) ==
    IF keys = {} THEN 0
    ELSE LET x == CHOOSE y \in keys : TRUE
         IN  counter[x] + SumValues(counter, keys \ {x})
Total(counter) == SumValues(counter, DOMAIN counter)

\* protocols = [node.get('protocol', 'unknown') for node in nodes]
ProtocolsOf(ns) == [k \in 1..Len(ns) |-> NodeGet(ns[k], "protocol", "unknown")]

\* C31 (as claimed): _analyze_nodes appends exactly one country per node:
\* when it returns, the counts of the country histogram sum to len(nodes), as
\* do those of the protocol histogram, whatever the lookups gave (hit, miss,
\* failure, a record with an empty country); when no lookup gave a record
\* every node is counted under the country of its keywords ('other' when it
\* has none).
C31_OneCountryPerNode ==
    \A t \in Threads :
        th[t].pc = "done" =>
            /\ Total(CounterOf(th[t].countries)) = Len(th[t].nodes)
            /\ Total(CounterOf(ProtocolsOf(th[t].nodes))) = Len(th[t].nodes)
            /\ cache = << >> =>
                  th[t].countries =
                      [k \in 1..Len(th[t].nodes) |->
                          MatchCountryByKeyword(NodeGet(th[t].nodes[k], "name", ""))]

\* C16 (as claimed, for _analyze_nodes): a node list with one malformed
\* entry does not make _analyze_nodes raise.
C16_MalformedEntryTolerated == \A t \in Threads : th[t].pc # "raised"

(***************************************************************************)
(* Properties of _parse_nodes                                              *)
(***************************************************************************)

\* the number of entries of the payload that decode to a node
ValidLines(c) == Cardinality({i \in 1..Len(c.lines) : ParseNodeLine(c.lines[i]) # Nothing})
ValidProxies(c) == Cardinality({i \in 1..Len(c.proxies) : c.proxies[i].isdict})

\* C1: _parse_nodes never returns more than 300 nodes, on the structured
\* path, on the encoded-lines path and when a failed structured attempt is
\* followed by the encoded-lines path, also for payloads with more than 300
\* valid entries; up to the cap no valid line is dropped.
C1_NodeCap ==
    /\ Len(nodes) <= MAX_NODES
    /\ pn_pc = "done" =>
        /\ (~content.clash /\ ValidLines(content) >= MAX_NODES) => Len(nodes) = MAX_NODES
        /\ (~content.clash /\ ValidLines(content) < MAX_NODES) =>
              Len(nodes) = ValidLines(content)

C1_Witness ==
    /\ pn_pc = "done"
    /\ Len(nodes) = MAX_NODES
    /\ \/ ~content.clash /\ ValidLines(content) > MAX_NODES
       \/ content.clash /\ content.yaml = "list" /\ ValidProxies(content) > MAX_NODES

\* the structured attempt on payload c ends by an exception part-way through
\* the proxies list: an entry raises before the cap stops the loop
StructuredAttemptFails(c) ==
    /\ c.clash
    /\ HasProxies(c)
    /\ \E j \in 1..Len(c.proxies) :
          /\ c.proxies[j].isdict /\ ProxyRaises(c.proxies[j])
          /\ \A i \in 1..(j - 1) : c.proxies[i].isdict => ~ProxyRaises(c.proxies[i])
          /\ Cardinality({i \in 1..(j - 1) : c.proxies[i].isdict}) < MAX_NODES

\* C34 (as claimed): when the structured attempt of _parse_nodes fails
\* part-way through the proxies list, the nodes returned are exactly those
\* the encoded-lines path decodes from the payload, in the order of the
\* lines: nothing collected by the failed attempt remains, and there are at
\* most 300 of them.
C34_NoResidue ==
    (pn_pc = "done" /\ StructuredAttemptFails(content)) =>
        /\ Len(nodes) <= MAX_NODES
        /\ Len(nodes) = IF ValidLines(content) < MAX_NODES THEN ValidLines(content)
                        ELSE MAX_NODES
        /\ \A k \in 1..Len(nodes) :
              /\ "raw" \in DOMAIN nodes[k]
              /\ nodes[k] = ParseNodeLine(content.lines[nodes[k].raw.body])[1]

(***************************************************************************)
(* Properties of the bot's URL batches                                     *)
(***************************************************************************)

\* what the batch has to parse: every URL, and for handle_subscription every
\* line that is a URL
Subscription(s) ==
    /\ s \in DOMAIN urls
    /\ handler = "handle_subscription" => is_valid_url(urls[s])

\* parse was called for the URL, once, and has come back
Parsed(s) ==
    /\ s \in DOMAIN task_pc
    /\ task_pc[s] \in {"report", "done"}
    /\ parse_calls[s] = 1

C14_NoFabricatedField ==
    ti_pc = "done" =>
        LET d == traffic_info
            has(k) == k \in DOMAIN d
        IN  /\ has("used") <=> (has("upload") /\ has("download"))
            /\ has("used") => d["used"] = d["upload"] + d["download"]
            /\ has("remaining") <=> (has("total") /\ has("used"))
            /\ has("remaining") => d["remaining"] = d["total"] - d["used"]
            /\ has("usage_percent") <=> (has("total") /\ has("used") /\ d["total"] > 0)
            /\ has("usage_percent") =>
                  d["usage_percent"] = [num |-> d["used"] * 100, den |-> d["total"]]
            /\ userinfo = << >> => d = << >>
            /\ \A k \in {"upload", "download", "total"} :
                  has(k) <=> \E j \in 1..Len(userinfo) :
                                userinfo[j].eq /\ userinfo[j].key = k

C14_Witness ==
    /\ ti_pc = "done"
    /\ "remaining" \in DOMAIN traffic_info
    /\ traffic_info["remaining"] < 0
    /\ "usage_percent" \in DOMAIN traffic_info

\* C15 (as claimed): _parse_traffic_info never raises, whatever the header.
C15_NeverRaises == ti_pc # "raised"

(***************************************************************************)
(* Properties of the encoded-lines path                                    *)
(***************************************************************************)

Min(a, b) == IF a <= b THEN a ELSE b

\* C17: when the payload passes the Clash test but its structured parse
\* fails (yaml.safe_load raises, or proxies cannot be iterated), _parse_nodes
\* ends without raising and returns what the encoded-lines path decodes: the
\* nodes of the valid lines, in order, up to the cap.
C17_YamlFallsThrough ==
    (pn_pc = "done" /\ content.clash /\ content.yaml \in {"error", "null"}) =>
        /\ Len(nodes) = Min(MAX_NODES, ValidLines(content))
        /\ \A k \in 1..Len(nodes) :
              /\ nodes[k] = ParseNodeLine(content.lines[nodes[k].raw.body])[1]
              /\ k > 1 => nodes[k - 1].raw.body < nodes[k].raw.body

C17_Witness ==
    /\ pn_pc = "done"
    /\ content.clash
    /\ content.yaml = "error"
    /\ Len(nodes) > 0
    /\ Len(nodes) < Len(content.lines)

\* the tag of each supported scheme prefix
TagOf ==
    [w \in {"vmess://", "vless://", "ss://", "ssr://", "trojan://", "hysteria://",
            "hysteria2://"} |->
        CASE w = "vmess://" -> "vmess" [] w = "vless://" -> "vless" [] w = "ss://" -> "ss"
          [] w = "ssr://" -> "ssr" [] w = "trojan://" -> "trojan"
          [] w = "hysteria://" -> "hysteria" [] OTHER -> "hysteria2"]

\* C18: each line handed to _parse_node_line gives a node tagged with the
\* line's scheme when the line starts with one of the seven prefixes
\* (hysteria2 lines are tagged hysteria2, ssr lines ssr), and no node for
\* any other line.
C18_ProtocolTag ==
    [][(pn_pc = "lines" /\ pn_i' = pn_i + 1 /\ ~IsBlank(content.lines[pn_i])) =>
          LET line == content.lines[pn_i] IN
          IF line.prefix \in DOMAIN TagOf
            THEN /\ Len(nodes') = Len(nodes) + 1
                 /\ nodes'[Len(nodes')].protocol = TagOf[line.prefix]
                 /\ nodes'[Len(nodes')].raw = line
            ELSE nodes' = nodes]_vars

C18_Witness ==
    /\ pn_pc = "lines"
    /\ pn_i > 2
    /\ content.lines[pn_i - 1].prefix = "hysteria2://"
    /\ nodes[Len(nodes)].protocol = "hysteria2"
    /\ \E j \in 1..(pn_i - 1) : content.lines[j].prefix = "hysteria3://"

\* the payload is the Base64 text of a list of valid node lines only (it
\* has none of the marks of the Clash test, and decodes to the lines)
EncodedNodeList(c) ==
    /\ ~c.clash
    /\ \A i \in 1..Len(c.lines) : c.lines[i] = NodeLine(i)

\* C19: round trip: for a list of at most 300 valid node lines, encoded in
\* Base64 and handed to _parse_nodes, the nodes returned have the protocol
\* and the name of the original lines, one node per line, in the order of
\* the lines (the name of a line without a fragment is the 'ps' of its vmess
\* body, when it has one).
C19_RoundTrip ==
    (pn_pc = "done" /\ EncodedNodeList(content) /\ Len(content.lines) <= MAX_NODES) =>
        /\ Len(nodes) = Len(content.lines)
        /\ \A k \in 1..Len(nodes) :
              /\ nodes[k].protocol = TagOf[NodeLine(k).prefix]
              /\ k % 5 # 0 => nodes[k].name = NodeNames[(k % Len(NodeNames)) + 1]
              /\ (k % 5 = 0 /\ k % 2 = 0 /\ NodeLine(k).prefix = "vmess://") =>
                    nodes[k].name = "vmess-ps"

C19_Witness ==
    /\ pn_pc = "done"
    /\ EncodedNodeList(content)
    /\ Len(content.lines) = MAX_NODES
    /\ Len(nodes) = MAX_NODES
    /\ nodes[2].name = "JP 03"

\* the prefixes of all the names of a node list that have a separator, in order
PatternsOf(names) ==
    LET withSep == SelectSeq(names, LAMBDA n : n # << >> /\ PrefixOf(n) # Nothing)
    IN  [i \in 1..Len(withSep) |-> PrefixOf(withSep[i])[1]]

\* C20: the name _extract_airport_name returns is the first available of: the
\* filename of Content-Disposition without its extension; the most common
\* prefix before a separator over the node names; the host of the fetched URL
\* without a leading www. / api. / sub.; the placeholder is returned only when
\* none of them is available, an empty node list included.
C20_NamePrecedence ==
    an_pc = "done" =>
        LET filename == HeaderFilename(an_headers)
            patterns == PatternsOf(an_nodes)
        IN  IF filename # Nothing /\ filename[1] # << >>
              THEN airport_name = StripChars(StripExtension(filename[1]), " ")
            ELSE IF patterns # << >>
              THEN airport_name = MostCommon(patterns)
            ELSE IF an_url.netloc # << >>
              THEN airport_name = Domain(an_url)
              ELSE airport_name = UnknownAirport

(***************************************************************************)
(* Properties of safe_request                                              *)
(***************************************************************************)

\* C21: safe_request never raises: whatever the requests do and whatever the
\* method and max_retries are, it ends (it does not hang), returns the response
\* when a request succeeded and None on every failure (retries exhausted, an
\* error that is not retried, an unsupported method), and it has then made at
\* most max_retries requests.
C21_SafeRequestNeverRaises ==
    /\ safe_result # "propagated"
    /\ Len(call_trace) <= max_retries
    /\ safe_result = "pending" => ENABLED SafeNext
    /\ safe_result # "pending" =>
          /\ ~ENABLED SafeNext
          /\ safe_result = "response" <=>
                (call_trace # << >> /\ call_trace[Len(call_trace)].outcome = "ok")
          /\ safe_result = "None" <=>
                (call_trace = << >> \/ call_trace[Len(call_trace)].outcome # "ok")

\* an unsupported method, and retries exhausted, both answered with None
C21_Witness ==
    /\ safe_result = "None"
    /\ max_retries = 3
    /\ \/ (Len(call_trace) = 1 /\ call_trace[1].event = "bad_method")
       \/ (Len(call_trace) = 3 /\ AllFailedRetryable)

(***************************************************************************)
(* Properties of the subscription store                                    *)
(***************************************************************************)

\* C22: between begin_batch() and end_batch(save=True) no call of
\* add_or_update or remove writes the data file, and end_batch(save=True)
\* writes it exactly once, with all of them in it.
C22_BatchedFlush ==
    /\ batch => batch_writes = 0
    /\ (last_op.op = "end_batch" /\ st_pc = "ready" /\ save_status = "saved") =>
          /\ batch_writes = 1
          /\ files["data"] = WrittenFile(JsonDump(subscriptions))

\* C23: whenever the process is inside _save_data, and when it has been
\* killed there, the data file is either the complete file of before the call
\* or the complete new subscriptions, never a partial write; after a call that
\* failed it is the file of before the call.
C23_AtomicSave ==
    /\ files["data"].state # "partial"
    /\ (InSave \/ st_pc = "killed") =>
          \/ files["data"] = prev_data
          \/ files["data"] = WrittenFile(JsonDump(subscriptions))
    /\ save_status = "failed" => files["data"] = prev_data

\* killed while the new subscriptions were being written: the temporary
\* file is partial and the data file still holds the previous subscriptions
C23_Witness ==
    /\ st_pc = "killed"
    /\ files["tmp"].state = "partial"
    /\ prev_data.state = "complete"
    /\ files["data"] = prev_data
    /\ prev_data.doc # JsonDump(subscriptions)

\* C24: after add_or_update(url, info) the entry of url has the fields of
\* info (and the time of the call as updated_at); if url was in the store its
\* added_at and tags are those it had, otherwise added_at is the time of the
\* call and tags is empty; every other subscription is as it was.
C24_AddOrUpdateFrame ==
    last_op.op = "add_or_update" =>
        LET before == last_op.before
            url == last_op.url
            info == last_op.info
            entry == subscriptions[url]
        IN  /\ DOMAIN subscriptions = DOMAIN before \cup {url}
            /\ \A other \in DOMAIN before \ {url} : subscriptions[other] = before[other]
            /\ entry.name = info.name
            /\ entry.node_count = info.node_count
            /\ \A k \in {"expire_time", "total", "used", "remaining"} :
                  k \in DOMAIN info => entry[k] = info[k]
            /\ entry.url = url
            /\ entry.updated_at = last_op.now
            /\ IF url \in DOMAIN before
                 THEN /\ "added_at" \in DOMAIN before[url] =>
                            entry.added_at = before[url].added_at
                      /\ "tags" \in DOMAIN before[url] => entry.tags = before[url].tags
                 ELSE /\ entry.added_at = last_op.now
                      /\ entry.tags = << >>

\* a tagged subscription is updated with other info while another one is stored
C24_Witness ==
    /\ last_op.op = "add_or_update"
    /\ last_op.url \in DOMAIN last_op.before
    /\ DOMAIN last_op.before = StoreUrls
    /\ "tags" \in DOMAIN last_op.before[last_op.url]
    /\ last_op.before[last_op.url].tags = <<"main">>
    /\ last_op.before[last_op.url].name # last_op.info.name
    /\ last_op.before[last_op.url].added_at < last_op.now

\* C25: after export_to_file wrote a file, import_from_file(merge=False) of
\* that file into the store, whatever it holds then, leaves exactly the
\* exported subscriptions and returns their number; with merge=True the
\* exported subscriptions replace those of the same URL and the others stay
\* as they were.
C25_ExportImportRoundTrip ==
    (last_op.op = "import_from_file" /\ exported # Nothing) =>
        LET file == exported[1]
            before == last_op.before
        IN  /\ last_op.ret = Cardinality(DOMAIN file)
            /\ IF ~last_op.merge
                 THEN subscriptions = file
                 ELSE /\ DOMAIN subscriptions = DOMAIN before \cup DOMAIN file
                      /\ \A u \in DOMAIN file : subscriptions[u] = file[u]
                      /\ \A u \in DOMAIN before \ DOMAIN file :
                            subscriptions[u] = before[u]

\* a tagged subscription was exported, the store changed, and the import
\* without merge brought the exported state back
C25_Witness ==
    /\ last_op.op = "import_from_file"
    /\ ~last_op.merge
    /\ exported # Nothing
    /\ \E u \in DOMAIN exported[1] :
          "tags" \in DOMAIN exported[1][u] /\ exported[1][u].tags = <<"main">>
    /\ DOMAIN last_op.before # DOMAIN exported[1]
    /\ subscriptions = exported[1]

\* the import of `file` fails: the file cannot be read or parsed, it has no
\* 'subscriptions' field, or that field is not a mapping
ImportFails(file) ==
    \/ file.state # "complete"
    \/ \E member \in file.doc : member[1] = "[]"
    \/ \A member \in file.doc : member[1] # "subscriptions"
    \/ \E member \in file.doc :
          member[1] = "subscriptions" /\ \E x \in member[2] : x[1] = "[]"

\* C38 (as claimed): when import_from_file fails it returns 0 and leaves the
\* in-memory subscriptions and the data file as they were, with merge=True
\* and with merge=False.
C38_FailedImportChangesNothing ==
    (last_op.op = "import_from_file" /\ ImportFails(last_op.file)) =>
        /\ last_op.ret = 0
        /\ subscriptions = last_op.before
        /\ files["data"] = last_op.data_before
        /\ st_pc = "ready"

(***************************************************************************)
(* Properties of the URL test of the bot                                   *)
(***************************************************************************)

\* C26: is_valid_url accepts a line only if its scheme is http or https and
\* it has a host, so handle_subscription hands no other line (no scheme,
\* another scheme such as ftp) to the parser.
C26_OnlyHttpUrls ==
    handler = "handle_subscription" =>
        \A s \in 1..Len(urls) :
            /\ (task_pc[s] # "start" /\ results[s] # "invalid") =>
                  (urls[s].scheme \in {"http", "https"} /\ urls[s].netloc # "")
            /\ parse_calls[s] > 0 =>
                  (urls[s].scheme \in {"http", "https"} /\ urls[s].netloc # "")

(***************************************************************************)
(* Properties of the direct analysis path                                  *)
(***************************************************************************)

\* C27: the node lists that parse_txt_file and parse_yaml_file build, and
\* that handle_document and handle_node_text pass to _analyze_nodes, never
\* hold more than MAX_NODES (300) nodes.
C27_DirectPathCap ==
    /\ Len(fh_nodes) <= MAX_NODES
    /\ analyzed # Nothing => analyzed[1] <= MAX_NODES

(***************************************************************************)
(* Properties of the delays of the retry wrapper                           *)
(***************************************************************************)

\* b to the power k
RECURSIVE Pow(_, _)
Pow(b, k) == IF k = 0 THEN 1 ELSE b * Pow(b, k - 1)

\* C28: the delay slept before retry number k (k = 0, 1, ...) is at least
\* initial_delay * backoff_factor^k and exceeds it by at most 25%, and no
\* sleep follows the final attempt: a wrapper that has returned or raised has
\* slept once less than it has called, and it never sleeps after attempt
\* max_retries - 1.
C28_DelayBounds ==
    /\ \A k \in 0..(Len(sleeps) - 1) :
          LET base == initial_delay * Pow(backoff_factor, k) IN
          /\ sleeps[k + 1] >= base
          /\ 4 * sleeps[k + 1] <= 5 * base
    /\ (rt_pc \in {"returned", "raised"} /\ call_trace # << >>) =>
          Len(sleeps) = Len(call_trace) - 1
    /\ rt_pc = "sleep" => attempt < max_retries - 1
    /\ Len(sleeps) <= Max(max_retries - 1, 0)

C28_Witness ==
    /\ rt_pc = "raised"
    /\ max_retries = 4
    /\ initial_delay = 10
    /\ backoff_factor = 3
    /\ AllFailedRetryable
    /\ Len(call_trace) = 4
    /\ sleeps = <<10, 30, 90>>

(***************************************************************************)
(* Properties of the construction of GeoLocationService                    *)
(***************************************************************************)

SpecSingleton == SingletonInit /\ [][SingletonNext]_vars

\* C32 (as claimed): GeoLocationService is a singleton initialised once:
\* every construction returns the same object, the body of __init__ (empty
\* cache, load from the file, registration of the exit hook) runs at most
\* once, also when the first constructions run concurrently in several parse
\* threads, and no entry put in the cache is ever lost to a later
\* construction.
C32_SingletonInitOnce ==
    /\ Cardinality(returned) <= 1
    /\ init_runs <= 1
    /\ hooks <= 1
    /\ \A k \in 1..Len(objs) : objs[k].inserted \subseteq objs[k].cache

(***************************************************************************)
(* Properties of url_cache and button_callback                             *)
(***************************************************************************)

SpecCallback == CallbackInit /\ [][CallbackNext]_vars

\* positions of the entries of the dict, by key
KeysOf(c) == {c[k].key : k \in 1..Len(c)}
PosOf(c, key) == CHOOSE k \in 1..Len(c) : c[k].key = key

\* C35 (as claimed): after any sequence of get_short_callback_data and
\* button_callback calls url_cache holds at most URL_CACHE_MAX_SIZE entries
\* and one entry per key; the entries a call drops are the least recently
\* registered ones: every dropped entry was before every entry the call
\* left untouched.
C35_UrlCacheBounded ==
    /\ Len(url_cache) <= URL_CACHE_MAX_SIZE
    /\ Cardinality(KeysOf(url_cache)) = Len(url_cache)
    /\ last_cb.kind # "none" =>
          LET old == last_cb.before
              dropped == KeysOf(old) \ KeysOf(url_cache)
              kept == {key \in KeysOf(old) \cap KeysOf(url_cache) :
                          url_cache[PosOf(url_cache, key)] = old[PosOf(old, key)]}
          IN  \A d \in dropped, k \in kept : PosOf(old, d) < PosOf(old, k)

\* C36: button_callback never acts on an expired or evicted button: when
\* the entry of the callback's hash is older than URL_CACHE_TTL_SECONDS or
\* there is none, the call answers 'expired' (or rejects the data) and makes
\* no recheck, delete or tag operation on the store, and asks for no tag.
C36_ExpiredButtonsDoNothing ==
    (last_cb.kind = "callback" /\ last_cb.found \in {"absent", "expired"}) =>
        /\ last_cb.answer \in {"expired", "data_error"}
        /\ last_cb.store_op = "none"

\* a recheck button older than the TTL was pressed, and a delete button of a
\* URL that was never registered
C36_Witness ==
    /\ last_cb.kind = "callback"
    /\ last_cb.action = "recheck"
    /\ last_cb.found = "expired"
    /\ last_cb.answer = "expired"
    /\ Len(last_cb.before) >= URL_CACHE_MAX_SIZE - 1
    /\ url_cache = << >>

(***************************************************************************)
(* Properties of check_command                                             *)
(***************************************************************************)

SpecCheck == CheckInit /\ [][CheckNext]_vars

\* C37: when check_command completes, every subscription it checked is in
\* one of two states: its parse returned with remaining > 0 (or with no
\* remaining) and it is stored with the fields of the result and
\* last_check_status 'success', or its parse raised or returned remaining
\* <= 0 and it is no longer in the store; the success and failed counts of
\* the report sum to the number of subscriptions checked; the subscriptions
\* that were not checked (other tags) are as they were, and nothing else is
\* in the store.
C37_CheckedOrRemoved ==
    ck_pc = "done" =>
        /\ ck_subs = (IF ck_tag = Nothing THEN DOMAIN ck_before
                      ELSE {u \in DOMAIN ck_before :
                              "tags" \in DOMAIN ck_before[u]
                              /\ \E k \in 1..Len(ck_before[u].tags) :
                                    ck_before[u].tags[k] = ck_tag[1]})
        /\ \A u \in ck_subs :
              LET parsed == ck_results[u].parsed
                  good == /\ parsed # Nothing
                          /\ "remaining" \in DOMAIN parsed[1] => parsed[1].remaining > 0
              IN  IF good
                    THEN /\ ck_results[u].status = "success"
                         /\ u \in DOMAIN ck_store
                         /\ ck_store[u].last_check_status = "success"
                         /\ ck_store[u].name = parsed[1].name
                         /\ ck_store[u].node_count = parsed[1].node_count
                         /\ ck_store[u].updated_at > ck_before[u].updated_at
                    ELSE /\ ck_results[u].status = "failed"
                         /\ u \notin DOMAIN ck_store
        /\ ck_report[1].total = Cardinality(ck_subs)
        /\ ck_report[1].success + ck_report[1].failed = Cardinality(ck_subs)
        /\ DOMAIN ck_store \subseteq DOMAIN ck_before
        /\ \A u \in DOMAIN ck_before \ ck_subs :
              u \in DOMAIN ck_store /\ ck_store[u] = ck_before[u]

\* /check main on a store of three: one subscription checked and stored, one
\* checked with no traffic left and removed, one of another tag left alone
C37_Witness ==
    /\ ck_pc = "done"
    /\ ck_tag = Some("main")
    /\ ck_subs = {"u1", "u3"}
    /\ ck_results["u1"].status = "success"
    /\ ck_store["u1"].name = "Air2"
    /\ ck_results["u3"].parsed =
          Some([name |-> "Air2", node_count |-> 10, total |-> 100, used |-> 100,
                remaining |-> 0])
    /\ DOMAIN ck_store = {"u1", "u2"}
    /\ ck_report = Some([total |-> 2, success |-> 1, failed |-> 1])

\* no call of get_location is between its insert and the end of its
\* _maybe_persist_cache, and the exit hook is not inside its save
GeoAtRest ==
    /\ \A t \in Threads : th[t].pc \notin {"killed"} /\ ~InMutation(t)
    /\ proc \in {"running", "exited"}

\* every entry of the in-memory cache is in a completely written cache file
CacheIsOnFile ==
    \A e \in DOMAIN cache :
        /\ cache_file.state = "ok"
        /\ e \in DOMAIN cache_file.data
        /\ cache_file.data[e] = cache[e]

\* C39 (as claimed): whenever _cache_dirty is False (and no call is in the
\* middle of its insert-and-save sequence), every entry of the in-memory
\* cache has been written to the cache file; a flush whose write fails leaves
\* the cache dirty and _cache_new_entries as it was.
C39_CleanMeansSaved ==
    (GeoAtRest /\ ~cache_dirty) => CacheIsOnFile

(***************************************************************************)
(* Properties of /import                                                   *)
(***************************************************************************)

SpecImport == ImportInit /\ [][ImportNext]_vars

\* the update handled k-th ran import_from_file
Imported(k) == im_log[k].update = "document" /\ im_log[k].imported

\* an /import of the sender of update k is pending when update k arrives: the
\* sender has sent /import before and no import has run for that sender since
PendingImport(k) ==
    \E j \in 1..(k - 1) :
        /\ im_log[j].update = "/import"
        /\ im_log[j].user = im_log[k].user
        /\ \A i \in (j + 1)..(k - 1) : ~(Imported(i) /\ im_log[i].user = im_log[k].user)

\* the number of updates of im_log[1..k] that satisfy `is` and come from user
ImCount(user, is(_)) ==
    Cardinality({k \in 1..Len(im_log) : im_log[k].user = user /\ is(k)})
IsImportCommand(k) == im_log[k].update = "/import"

====
